---- MODULE Spec2Model ----
(***************************************************************************)
(* A model of the packages of MeSilicon7/my-packages:                      *)
(*   - the useFetch React hook            (react-hooks/use-fetch)          *)
(*   - the useFileUploadProgress hook     (react-hooks/use-file-upload-..) *)
(*   - the R2 pre-signed URL generators   (simple-r2-utils)                *)
(*   - the Cloudflare Images signed URL   (simple-cf-image-utils)          *)
(*   - the SSLCommerz gateway client      (simple-sslcommerz)              *)
(* The packages are independent of each other, so each has its own         *)
(* variables, its own initial condition and next-state relation, and its   *)
(* own specification (SpecFetch, SpecUpload, ...); Spec is their           *)
(* interleaving.                                                           *)
(*                                                                         *)
(* Text is modelled by TLA+ strings; Len, SubSeq and \o act on them        *)
(* character by character.                                                 *)
(***************************************************************************)
EXTENDS Integers, Sequences, FiniteSets, TLC

\* ------------------------------------------------------------------ bounds
\* useFetch: the number of HTTP requests one hook instance may issue.
MaxRequests == 3
\* useFileUploadProgress: the number of uploadFile() calls on one instance.
MaxUploads == 3
\* useFileUploadProgress: the number of abort() calls on one instance.
MaxAborts == 2
\* getSignedImageUrlUsingID: the longest variant argument, the number of
\* clock steps and the number of calls.
MaxVariantLen == 2
MaxTicks == 3
MaxImageCalls == 2

\* getPreSignedUploadUrl / getPreSignedDownloadUrl: the longest file name and
\* the number of calls.
MaxNameLen == 2
MaxR2Calls == 2

\* SSLCommerzUtil: the number of calls of its methods.
MaxSslCalls == 2

\* generateTransactionId: the number of calls and of clock steps.
MaxTxnCalls == 2
MaxTxnTicks == 2

MaxLsValue == 3        \* stored values are 0..MaxLsValue
MaxBatch == 2          \* setValue/deleteValue calls between two renders

MaxRvRequests == 3     \* requests started in the timed model of useFetch
MaxRvTicks == 5        \* clock ticks in the timed model of useFetch

MaxLogCalls == 2       \* SSLCommerzUtil method calls in the logging model

MaxIdleTicks == 2      \* idleTimeout is 1..MaxIdleTicks clock ticks

MaxGeoRequests == 3    \* getCurrentPosition requests of one hook instance

MaxNetEvents == 3      \* window online/offline events after the first render

MaxVidCalls == 2       \* calls of getRestrictedVideoIframeUrl

\* -------------------------------------------------------------- variables
VARIABLES
  \* useFetch
  fcfg,           \* the hook's configuration (props), fixed for the instance
  fphase,         \* "unmounted" | "mounted" | "gone"
  data,           \* useState: data
  error,          \* useState: error
  loading,        \* useState: loading
  hasFetchedRef,  \* useRef: hasFetchedRef.current
  interval,       \* TRUE while the revalidation setInterval timer is armed
  requests,       \* the HTTP requests issued so far, in order
  executeCalled,  \* TRUE once the caller has invoked execute() itself
  \* useFileUploadProgress
  progress,       \* useState: progress
  isUploading,    \* useState: isUploading
  uploadError,    \* useState: error
  controllerRef,  \* useRef: the upload whose controller is current, 0 = null
  uploads,        \* the uploadFile() calls so far: XHR, controller, promise
  abortCalls,     \* the number of abort() calls so far
  \* getSignedImageUrlUsingID
  imgArgs,        \* the arguments the caller passes on every call
  imgNow,         \* Date.now(), in milliseconds
  imgCalls,       \* the calls so far: when each was made, what it returned
  \* getPreSignedUploadUrl / getPreSignedDownloadUrl
  r2Args,         \* the arguments the caller passes on every call
  r2Now,          \* the clock: which of the instants it is
  r2Calls,        \* the calls so far: method, instant, returned URL
  \* SSLCommerzUtil
  sslCall,        \* the latest call: method, argument, how far it got
  sslDone,        \* the number of calls that have ended
  \* SSLCommerzUtil.generateTransactionId
  txnNow,         \* Date.now(), in milliseconds
  txnIds,         \* the calls so far: arguments, time, the ID returned
  \* SSLCommerzUtil: constructor and getConfigSummary
  cfgUtil,        \* the instance: how new SSLCommerzUtil(config) ended
  cfgSummary,     \* what getConfigSummary() returned, if it was called
  \* SSLCommerzUtil.validatePaymentData
  payData,        \* the payment data the caller validates
  payResult,      \* <<list>> once validatePaymentData has returned its list
  \* react-hooks/use-localstorage: useLocalStorage
  lsStore,        \* window.localStorage: key -> {} (no entry) or {text}
  lsKey,          \* the key argument of the current render
  lsInitialValue, \* the initialValue argument
  lsPhase,        \* "unmounted", "effect" (read effect pending) or "idle"
  storedValue,    \* the state value the current render returned
  lsQueue,        \* {} or {v}: the state update queued for the next render
  lsBatch,        \* the setValue/deleteValue calls made since the last render
  lsLast,         \* the last step: [op, value, threw]
  lsFresh,        \* TRUE from a mount until a handler call or a key change
  \* react-hooks/use-fetch: the revalidation effect, with renders and time
  rvCfg,          \* url, immediate, revalidateInterval, once, transform
  rvPhase,        \* "unmounted", "mounted" or "gone"
  rvNow,          \* the clock, in ms since the mount
  rvHasFetched,   \* hasFetchedRef.current
  rvLoading,      \* the loading state
  rvError,        \* whether the error state is not null
  rvRequests,     \* the requests started: [start, origin, state]
  rvTimers,       \* the armed interval timers: [id, due]
  rvEffectTimer,  \* the ids the last run of the revalidation effect holds
  rvTimerSeq,     \* how many timers were created
  rvRenderPending,\* a state setter was called and React has not rendered yet
  \* simple-sslcommerz: what SSLCommerzUtil passes to its Logger
  logUtil,        \* the configuration of the constructed SSLCommerzUtil
  logEntries,     \* the logger calls so far: [level, message, fields, printed]
  logPending,     \* <<>> or <<[method, arg]>>: the call that awaits its fetch
  logCalls,       \* how many method calls have started
  \* react-hooks/use-user-activity: useUserActivity
  uaPhase,        \* "unmounted", "mounted" or "gone"
  uaTimeout,      \* the idleTimeout option, in clock ticks
  isIdle,         \* the isIdle state
  isVisible,      \* the isVisible state
  lastActiveAge,  \* clock ticks since the time lastActiveAt holds (capped)
  uaHidden,       \* document.hidden
  uaFocused,      \* document.hasFocus()
  uaTimers,       \* the pending setTimeout timers: [id, remaining]
  timeoutRef,     \* timeoutRef.current: {} (null) or {id}
  uaQuiet,        \* clock ticks since the mount or the last activity (capped)
  uaLast,         \* the kind of the last step
  \* react-hooks/use-geolocation: useGeolocation
  geoEnv,         \* the environment and options: [geolocation, immediate]
  geoPhase,       \* "unmounted", "hydrating", "ready" or "gone"
  isClient,       \* isClient as the current render's callbacks see it
  supported,      \* supported as the current render's callbacks see it
  coordinates,    \* the coordinates state: Null or a position
  geoLoading,     \* the loading state
  geoError,       \* the error state: Null or a message
  watching,       \* the watching state
  watchIdRef,     \* watchIdRef.current: {} (null) or {id}
  geoWatchers,    \* the watch ids registered with navigator.geolocation
  geoRequests,    \* the getCurrentPosition requests: "pending" or "answered"
  geoLast,        \* the last step: [op, had], had: a watch id was held before
  \* react-hooks/use-network-status: useNetworkStatus
  netEnv,         \* "browser" or "server" (no window, no navigator)
  netPhase,       \* "unrendered", "rendered", "subscribed", "gone" or "threw"
  navigatorOnLine,\* navigator.onLine of the browser
  isConnected,    \* the value the hook returns: {} before a render, else {b}
  netListeners,   \* the window events the hook listens to
  netEvents,      \* the window events since the first render: [type, heard]
  \* simple-cf-video-utils: getRestrictedVideoIframeUrl
  vidArgs,        \* the arguments of the calls: [config, restrictions]
  vidNow,         \* Date.now() while the calls are made, in milliseconds
  vidCalls        \* the calls: [request, state, reply, result, thrown]

fetchVars == <<fcfg, fphase, data, error, loading, hasFetchedRef, interval,
               requests, executeCalled>>

uploadVars == <<progress, isUploading, uploadError, controllerRef, uploads,
                abortCalls>>

imageVars == <<imgArgs, imgNow, imgCalls>>

r2Vars == <<r2Args, r2Now, r2Calls>>

sslVars == <<sslCall, sslDone>>

txnVars == <<txnNow, txnIds>>

cfgVars == <<cfgUtil, cfgSummary>>

payVars == <<payData, payResult>>

lsVars == <<lsStore, lsKey, lsInitialValue, lsPhase, storedValue, lsQueue, lsBatch, lsLast, lsFresh>>

rvVars == <<rvCfg, rvPhase, rvNow, rvHasFetched, rvLoading, rvError, rvRequests, rvTimers, rvEffectTimer, rvTimerSeq, rvRenderPending>>

logVars == <<logUtil, logEntries, logPending, logCalls>>

uaVars == <<uaPhase, uaTimeout, isIdle, isVisible, lastActiveAge, uaHidden, uaFocused, uaTimers, timeoutRef, uaQuiet, uaLast>>

geoVars == <<geoEnv, geoPhase, isClient, supported, coordinates, geoLoading, geoError, watching, watchIdRef, geoWatchers, geoRequests, geoLast>>

netVars == <<netEnv, netPhase, navigatorOnLine, isConnected, netListeners, netEvents>>

vidVars == <<vidArgs, vidNow, vidCalls>>

vars == <<fetchVars, uploadVars, imageVars, r2Vars, sslVars, txnVars, cfgVars, payVars, lsVars, rvVars, logVars, uaVars, geoVars, netVars, vidVars>>

\* What the steps of one package leave alone: the other packages.
fetchOthers == <<uploadVars, imageVars, r2Vars, sslVars, txnVars, cfgVars, payVars, lsVars, rvVars, logVars, uaVars, geoVars, netVars, vidVars>>
uploadOthers == <<fetchVars, imageVars, r2Vars, sslVars, txnVars, cfgVars, payVars, lsVars, rvVars, logVars, uaVars, geoVars, netVars, vidVars>>
imageOthers == <<fetchVars, uploadVars, r2Vars, sslVars, txnVars, cfgVars, payVars, lsVars, rvVars, logVars, uaVars, geoVars, netVars, vidVars>>
r2Others == <<fetchVars, uploadVars, imageVars, sslVars, txnVars, cfgVars, payVars, lsVars, rvVars, logVars, uaVars, geoVars, netVars, vidVars>>
sslOthers == <<fetchVars, uploadVars, imageVars, r2Vars, txnVars, cfgVars, payVars, lsVars, rvVars, logVars, uaVars, geoVars, netVars, vidVars>>
txnOthers == <<fetchVars, uploadVars, imageVars, r2Vars, sslVars, cfgVars, payVars, lsVars, rvVars, logVars, uaVars, geoVars, netVars, vidVars>>
cfgOthers == <<fetchVars, uploadVars, imageVars, r2Vars, sslVars, txnVars, payVars, lsVars, rvVars, logVars, uaVars, geoVars, netVars, vidVars>>
payOthers == <<fetchVars, uploadVars, imageVars, r2Vars, sslVars, txnVars, cfgVars, lsVars, rvVars, logVars, uaVars, geoVars, netVars, vidVars>>
lsOthers == <<fetchVars, uploadVars, imageVars, r2Vars, sslVars, txnVars, cfgVars, payVars, rvVars, logVars, uaVars, geoVars, netVars, vidVars>>
rvOthers == <<fetchVars, uploadVars, imageVars, r2Vars, sslVars, txnVars, cfgVars, payVars, lsVars, logVars, uaVars, geoVars, netVars, vidVars>>
logOthers == <<fetchVars, uploadVars, imageVars, r2Vars, sslVars, txnVars, cfgVars, payVars, lsVars, rvVars, uaVars, geoVars, netVars, vidVars>>
uaOthers == <<fetchVars, uploadVars, imageVars, r2Vars, sslVars, txnVars, cfgVars, payVars, lsVars, rvVars, logVars, geoVars, netVars, vidVars>>
geoOthers == <<fetchVars, uploadVars, imageVars, r2Vars, sslVars, txnVars, cfgVars, payVars, lsVars, rvVars, logVars, uaVars, netVars, vidVars>>
netOthers == <<fetchVars, uploadVars, imageVars, r2Vars, sslVars, txnVars, cfgVars, payVars, lsVars, rvVars, logVars, uaVars, geoVars, vidVars>>
vidOthers == <<fetchVars, uploadVars, imageVars, r2Vars, sslVars, txnVars, cfgVars, payVars, lsVars, rvVars, logVars, uaVars, geoVars, netVars>>

\* The value of a JavaScript null / undefined.
Null == "null"

\* ------------------------------------------------------------------- text
\* The i-th character of s.
Char(s, i) == SubSeq(s, i, i)

\* The printable ASCII characters U+0020 .. U+005F and U+0061 .. U+007E, in
\* code point order (a string cannot hold U+0060).
AsciiLow == " !\"#$%&'()*+,-./0123456789:;<=>?@ABCDEFGHIJKLMNOPQRSTUVWXYZ[\\]^_"
AsciiHigh == "abcdefghijklmnopqrstuvwxyz{|}~"

\* The characters of a string, as a set.
CharsOf(s) == {Char(s, i) : i \in 1..Len(s)}

\* The code point of every character; a line feed is U+000A.
AllChars == CharsOf(AsciiLow) \cup CharsOf(AsciiHigh) \cup {"\n"}

CodeTable ==
  [c \in AllChars |->
     IF c = "\n" THEN 10
     ELSE IF c \in CharsOf(AsciiLow)
     THEN 31 + (CHOOSE i \in 1..Len(AsciiLow) : Char(AsciiLow, i) = c)
     ELSE 96 + (CHOOSE i \in 1..Len(AsciiHigh) : Char(AsciiHigh, i) = c)]

CodeOf(c) == CodeTable[c]

Digits == CharsOf("0123456789")
UpperCase == CharsOf("ABCDEFGHIJKLMNOPQRSTUVWXYZ")
LowerCase == CharsOf("abcdefghijklmnopqrstuvwxyz")

IsDigit(c) == c \in Digits
IsUpper(c) == c \in UpperCase
IsLower(c) == c \in LowerCase
IsAlnum(c) == IsDigit(c) \/ IsUpper(c) \/ IsLower(c)

\* s with every character c replaced by f[c], left to right.
RECURSIVE MapChars(_, _)
MapChars(f, s) ==
  IF Len(s) = 0 THEN ""
  ELSE IF Len(s) = 1 THEN f[s]
  ELSE MapChars(f, SubSeq(s, 1, Len(s) \div 2))
         \o MapChars(f, SubSeq(s, (Len(s) \div 2) + 1, Len(s)))

\* Whether character c occurs in s.
Contains(s, c) == \E i \in 1..Len(s) : Char(s, i) = c

\* The index of the first c in s, or 0.
IndexOf(s, c) ==
  LET hits == {i \in 1..Len(s) : Char(s, i) = c}
  IN IF hits = {} THEN 0 ELSE CHOOSE i \in hits : \A j \in hits : i <= j

\* The strings of a sequence, one after the other.
RECURSIVE Concat(_)
Concat(pieces) ==
  IF Len(pieces) = 0 THEN ""
  ELSE IF Len(pieces) = 1 THEN pieces[1]
  ELSE Concat(SubSeq(pieces, 1, Len(pieces) \div 2))
         \o Concat(SubSeq(pieces, (Len(pieces) \div 2) + 1, Len(pieces)))

\* The two upper-case hexadecimal digits of a byte.
Hex2(n) == Char("0123456789ABCDEF", (n \div 16) + 1)
             \o Char("0123456789ABCDEF", (n % 16) + 1)

\* "%XX" for the (ASCII) character c.
PercentEncode(c) == "%" \o Hex2(CodeOf(c))

\* encodeURIComponent: everything but A-Z a-z 0-9 - _ . ! ~ * ' ( ) is
\* percent-encoded.
UriUnreserved == CharsOf("-_.!~*'()")

encodeURIComponentChar(c) ==
  IF IsAlnum(c) \/ c \in UriUnreserved THEN c ELSE PercentEncode(c)

encodeURIComponentTable == [c \in AllChars |-> encodeURIComponentChar(c)]

encodeURIComponent(s) == MapChars(encodeURIComponentTable, s)

\* Number.prototype.toString() of a natural number: its decimal digits.
RECURSIVE NatToString(_)
NatToString(n) ==
  IF n < 10 THEN Char("0123456789", n + 1)
  ELSE NatToString(n \div 10) \o Char("0123456789", (n % 10) + 1)

\* Array.prototype.join of a sequence of strings.
RECURSIVE Join(_, _)
Join(parts, sep) ==
  IF Len(parts) = 0 THEN ""
  ELSE IF Len(parts) = 1 THEN parts[1]
  ELSE parts[1] \o sep \o Join(Tail(parts), sep)

\* --------------------------------------------------------------- digests
\* SHA-256 and HMAC-SHA256 are modelled as collision-free: a digest is a
\* token that spells out what was hashed, written in letters, digits, "-"
\* and "_" only (Escape), so that distinct inputs give distinct tokens and a
\* token passes through URL encoding unchanged, as a hexadecimal digest does.
EscapeChar(c) == IF IsAlnum(c) THEN c ELSE "_" \o Hex2(CodeOf(c))

EscapeTable == [c \in AllChars |-> EscapeChar(c)]

Escape(s) == MapChars(EscapeTable, s)

\* createHmac("sha256", key).update(msg).digest(): the raw MAC.
HmacSha256(key, msg) == "hmac-" \o Escape(key) \o "-" \o Escape(msg)

\* .digest("hex") / bufferToHex of a raw digest.
ToHex(digest) == "hex-" \o digest

\* createHash("sha256").update(msg).digest("hex").
Sha256Hex(msg) == ToHex("sha256-" \o Escape(msg))

\* ================================================================ useFetch
\* The default of revalidateInterval, in milliseconds.
DefaultRevalidateInterval == 5000

\* The configurations a caller may pass: url, immediate, revalidateInterval
\* (0 switches revalidation off, as any falsy value does) and once.
FetchConfigs ==
  [url : {"", "/api/users"},
   immediate : BOOLEAN,
   revalidateInterval : {0, DefaultRevalidateInterval},
   once : BOOLEAN]

\* What the awaited part of execute() can end in: a 2xx response whose body
\* parses (with its transformed value), a non-2xx response, or a rejection
\* of fetch / of the body parser.
FetchOutcomes ==
  [kind : {"ok"}, value : {"v1", "v2"}, message : {Null}]
    \cup [kind : {"failed"}, value : {Null},
          message : {"HTTP Error: 500", "Failed to fetch"}]

\* The hook before it is mounted, whatever its configuration.
FetchStart ==
  /\ fphase = "unmounted"
  /\ data = Null
  /\ error = Null
  /\ loading = FALSE
  /\ hasFetchedRef = FALSE
  /\ interval = FALSE
  /\ requests = <<>>
  /\ executeCalled = FALSE

FetchInit ==
  /\ fcfg \in FetchConfigs
  /\ FetchStart

\* The synchronous part of execute(), up to `await fetch(...)`, run with
\* hasFetchedRef.current = fetched.
execute(fetched, origin) ==
  IF fcfg.url = "" \/ (fcfg.once /\ fetched)
  THEN UNCHANGED <<loading, error, requests>>
  ELSE /\ loading' = TRUE
       /\ error' = Null
       /\ requests' = Append(requests, [origin |-> origin, state |-> "pending"])

\* Whether the revalidation effect arms its timer.
ArmsInterval(cfg) == ~(cfg.revalidateInterval = 0 \/ cfg.once)

\* The component mounts: the three effects run in source order.
Mount ==
  /\ fphase = "unmounted"
  /\ fphase' = "mounted"
  /\ hasFetchedRef' = FALSE
  /\ IF fcfg.immediate
     THEN execute(FALSE, "mount")
     ELSE UNCHANGED <<loading, error, requests>>
  /\ interval' = ArmsInterval(fcfg)
  /\ UNCHANGED <<fcfg, data, executeCalled>>
  /\ UNCHANGED fetchOthers

\* The caller invokes the returned execute().
ManualExecute ==
  /\ fphase = "mounted"
  /\ Len(requests) < MaxRequests
  /\ executeCalled' = TRUE
  /\ execute(hasFetchedRef, "manual")
  /\ UNCHANGED <<fcfg, fphase, data, hasFetchedRef, interval>>
  /\ UNCHANGED fetchOthers

\* revalidateInterval milliseconds went by: the setInterval callback runs.
TimerFire ==
  /\ fphase = "mounted"
  /\ interval
  /\ Len(requests) < MaxRequests
  /\ execute(hasFetchedRef, "timer")
  /\ UNCHANGED <<fcfg, fphase, data, hasFetchedRef, interval, executeCalled>>
  /\ UNCHANGED fetchOthers

\* The rest of execute() for request i, once its fetch has settled: the try
\* block's tail or the catch block, then finally.  State setters of a
\* component that is gone do nothing; the ref is written all the same.
Settle(i, o) ==
  /\ i \in 1..Len(requests)
  /\ requests[i].state = "pending"
  /\ requests' = [requests EXCEPT ![i].state = o.kind]
  /\ hasFetchedRef' = IF o.kind = "ok" THEN TRUE ELSE hasFetchedRef
  /\ IF fphase = "mounted"
     THEN /\ data' = IF o.kind = "ok" THEN o.value ELSE data
          /\ error' = IF o.kind = "ok" THEN error ELSE o.message
          /\ loading' = FALSE
     ELSE UNCHANGED <<data, error, loading>>
  /\ UNCHANGED <<fcfg, fphase, interval, executeCalled>>
  /\ UNCHANGED fetchOthers

\* The component unmounts: the revalidation effect's cleanup clears the timer.
Unmount ==
  /\ fphase = "mounted"
  /\ fphase' = "gone"
  /\ interval' = FALSE
  /\ UNCHANGED <<fcfg, data, error, loading, hasFetchedRef, requests,
                 executeCalled>>
  /\ UNCHANGED fetchOthers

FetchNext ==
  \/ Mount
  \/ ManualExecute
  \/ TimerFire
  \/ \E i \in 1..MaxRequests, o \in FetchOutcomes : Settle(i, o)
  \/ Unmount

\* =================================================== useFileUploadProgress
\* The HTTP statuses a server answers an upload with.
UploadStatuses == {200, 204, 404}

\* The statuses for which the Response constructor refuses a body (the
\* "null body statuses"); xhr.responseText is a string, never null.
NullBodyStatuses == {101, 103, 204, 205, 304}

\* new Response(xhr.responseText, {status, ...}): "thrown" where the
\* constructor throws a TypeError, a Response otherwise.
NewResponse(status) ==
  IF status \in NullBodyStatuses THEN "thrown" ELSE "response"

UploadInit ==
  /\ progress = 0
  /\ isUploading = FALSE
  /\ uploadError = Null
  /\ controllerRef = 0
  /\ uploads = <<>>
  /\ abortCalls = 0

\* resolve(v) on upload u's promise: the first settlement stays.
Resolve(u, v) ==
  [u EXCEPT !.promise = IF u.promise = "pending" THEN v ELSE u.promise,
            !.resolves = u.resolves + 1]

\* uploadFile(file, url, options): the state setters, a fresh controller and
\* XMLHttpRequest, and the promise's executor up to xhr.send(), for a url
\* and headers that xhr.open() and xhr.setRequestHeader() accept.
uploadFile ==
  /\ Len(uploads) < MaxUploads
  /\ progress' = 0
  /\ uploadError' = Null
  /\ isUploading' = TRUE
  /\ controllerRef' = Len(uploads) + 1
  /\ uploads' = Append(uploads,
       [xhr |-> "sent",
        status |-> 0,
        promise |-> "pending",
        resolves |-> 0,
        signalAborted |-> FALSE])
  /\ UNCHANGED abortCalls
  /\ UNCHANGED uploadOthers

\* xhr.upload 'progress' with lengthComputable, at pct percent.
OnProgress(i, pct) ==
  /\ i \in 1..Len(uploads)
  /\ uploads[i].xhr = "sent"
  /\ progress' = pct
  /\ UNCHANGED <<isUploading, uploadError, controllerRef, uploads, abortCalls>>
  /\ UNCHANGED uploadOthers

\* xhr 'load' with the given status.  In the 2xx branch an exception of the
\* Response constructor ends the listener where it is thrown.
OnLoad(i, status) ==
  /\ i \in 1..Len(uploads)
  /\ uploads[i].xhr = "sent"
  /\ LET u == [uploads[i] EXCEPT !.xhr = "load", !.status = status] IN
     IF status >= 200 /\ status < 300
     THEN /\ progress' = 100
          /\ IF NewResponse(status) = "thrown"
             THEN /\ uploads' = [uploads EXCEPT ![i] = u]
                  /\ UNCHANGED <<isUploading, uploadError, controllerRef>>
             ELSE /\ uploads' = [uploads EXCEPT ![i] = Resolve(u, "response")]
                  /\ isUploading' = FALSE
                  /\ controllerRef' = 0
                  /\ UNCHANGED uploadError
     ELSE /\ uploadError' = "Upload failed: " \o NatToString(status)
          /\ uploads' = [uploads EXCEPT ![i] = Resolve(u, "null")]
          /\ isUploading' = FALSE
          /\ controllerRef' = 0
          /\ UNCHANGED progress
  /\ UNCHANGED abortCalls
  /\ UNCHANGED uploadOthers

\* An 'error' listener that leaves isUploading as it is.
OnError_KeepsUploading(i) ==
  /\ i \in 1..Len(uploads)
  /\ uploads[i].xhr = "sent"
  /\ uploadError' = "Upload failed"
  /\ controllerRef' = 0
  /\ uploads' = [uploads EXCEPT
       ![i] = Resolve([uploads[i] EXCEPT !.xhr = "error"], "null")]
  /\ UNCHANGED <<progress, abortCalls, isUploading>>
  /\ UNCHANGED uploadOthers

\* xhr 'error': the request failed on the network.
OnError(i) ==
  /\ i \in 1..Len(uploads)
  /\ uploads[i].xhr = "sent"
  /\ uploadError' = "Upload failed"
  /\ isUploading' = FALSE
  /\ controllerRef' = 0
  /\ uploads' = [uploads EXCEPT
       ![i] = Resolve([uploads[i] EXCEPT !.xhr = "error"], "null")]
  /\ UNCHANGED <<progress, abortCalls>>
  /\ UNCHANGED uploadOthers

\* abort(): with a current controller, controller.abort() runs the signal's
\* listener, xhr.abort(), which on a request still in progress runs the xhr
\* 'abort' listener at once; then the two setters of abort() itself.
abort ==
  /\ abortCalls < MaxAborts
  /\ abortCalls' = abortCalls + 1
  /\ IF controllerRef = 0
     THEN UNCHANGED <<progress, isUploading, uploadError, controllerRef, uploads>>
     ELSE LET c == controllerRef
              u == [uploads[c] EXCEPT !.signalAborted = TRUE]
              fires == ~uploads[c].signalAborted /\ uploads[c].xhr = "sent"
          IN /\ uploads' = [uploads EXCEPT
                  ![c] = IF fires THEN Resolve([u EXCEPT !.xhr = "abort"], "null")
                                  ELSE u]
             /\ controllerRef' = IF fires THEN 0 ELSE c
             /\ isUploading' = FALSE
             /\ uploadError' = "Upload aborted"
             /\ UNCHANGED progress
  /\ UNCHANGED uploadOthers

UploadNext ==
  \/ uploadFile
  \/ \E i \in 1..MaxUploads : OnProgress(i, 50)
  \/ \E i \in 1..MaxUploads, st \in UploadStatuses : OnLoad(i, st)
  \/ \E i \in 1..MaxUploads : OnError(i)
  \/ abort

\* ================================================== simple-cf-image-utils
\* ---- the URL class (WHATWG URL), as far as getSignedImageUrlUsingID uses
\* it: an https URL with a fixed host; the inputs hold no ".", "\", "%",
\* tab or line feed, so dot segments and percent-decoding of the path do
\* not arise.

\* The character with code point n (n in U+0020 .. U+007E, not U+0060).
CharOf(n) ==
  IF n = 10 THEN "\n"
  ELSE IF n < 96 THEN Char(AsciiLow, n - 31) ELSE Char(AsciiHigh, n - 96)

\* s without its leading and trailing spaces.
RECURSIVE TrimSpaces(_)
TrimSpaces(s) ==
  IF Len(s) > 0 /\ Char(s, 1) = " " THEN TrimSpaces(Tail(s))
  ELSE IF Len(s) > 0 /\ Char(s, Len(s)) = " "
       THEN TrimSpaces(SubSeq(s, 1, Len(s) - 1))
  ELSE s

\* s up to (not including) the first c, all of s where c does not occur.
Before(s, c) == IF Contains(s, c) THEN SubSeq(s, 1, IndexOf(s, c) - 1) ELSE s

\* s after the first c; Null where c does not occur.
After(s, c) ==
  IF Contains(s, c) THEN SubSeq(s, IndexOf(s, c) + 1, Len(s)) ELSE Null

\* The percent-encode sets of the URL parser (without the characters
\* outside printable ASCII and U+0060).
PathEncodeSet == CharsOf(" \"#<>?{}")
QueryEncodeSet == CharsOf(" \"#<>'")
FragmentEncodeSet == CharsOf(" \"<>")

PathEncodeChar(c) == IF c \in PathEncodeSet THEN PercentEncode(c) ELSE c
QueryEncodeChar(c) == IF c \in QueryEncodeSet THEN PercentEncode(c) ELSE c
FragmentEncodeChar(c) ==
  IF c \in FragmentEncodeSet THEN PercentEncode(c) ELSE c

PathEncodeTable == [c \in AllChars |-> PathEncodeChar(c)]
QueryEncodeTable == [c \in AllChars |-> QueryEncodeChar(c)]
FragmentEncodeTable == [c \in AllChars |-> FragmentEncodeChar(c)]

\* new URL(origin + rest), rest starting with "/": the parsed URL record.
\* query and fragment are Null when the input has no "?" resp. "#".
NewURL(origin, rest) ==
  LET input == TrimSpaces(rest)
      frag == After(input, "#")
      noFrag == Before(input, "#")
      query == After(noFrag, "?")
      path == Before(noFrag, "?")
  IN [origin |-> origin,
      pathname |-> MapChars(PathEncodeTable, path),
      query |-> IF query = Null THEN Null ELSE MapChars(QueryEncodeTable, query),
      fragment |-> IF frag = Null THEN Null
                   ELSE MapChars(FragmentEncodeTable, frag)]

\* The value of a hexadecimal digit, -1 for any other character.
HexTable ==
  [c \in AllChars |->
     IF Contains("0123456789ABCDEF", c) THEN IndexOf("0123456789ABCDEF", c) - 1
     ELSE IF Contains("abcdef", c) THEN IndexOf("abcdef", c) + 9
     ELSE -1]

HexValue(c) == HexTable[c]

\* application/x-www-form-urlencoded decoding of a name or a value: "+" is a
\* space, "%XX" the byte XX.
FormDecode(s) ==
  LET escapes == {i \in 1..(Len(s) - 2) :
                    /\ Char(s, i) = "%"
                    /\ HexValue(Char(s, i + 1)) >= 0
                    /\ HexValue(Char(s, i + 2)) >= 0}
  IN Concat([i \in 1..Len(s) |->
       IF i \in escapes
       THEN CharOf(16 * HexValue(Char(s, i + 1)) + HexValue(Char(s, i + 2)))
       ELSE IF (i - 1) \in escapes \/ (i - 2) \in escapes THEN ""
       ELSE IF Char(s, i) = "+" THEN " "
       ELSE Char(s, i)])

\* The application/x-www-form-urlencoded parser: the name-value pairs of a
\* query string, in order.
RECURSIVE FormParse(_)
FormParse(q) ==
  IF Len(q) = 0 THEN <<>>
  ELSE LET piece == Before(q, "&")
           rest == IF Contains(q, "&") THEN After(q, "&") ELSE ""
           value == After(piece, "=")
       IN (IF Len(piece) = 0 THEN <<>>
           ELSE << <<FormDecode(Before(piece, "=")),
                     IF value = Null THEN "" ELSE FormDecode(value)>> >>)
          \o FormParse(rest)

\* The application/x-www-form-urlencoded serializer.
FormUnreserved == CharsOf("*-._")

FormEncodeChar(c) ==
  IF IsAlnum(c) \/ c \in FormUnreserved THEN c
  ELSE IF c = " " THEN "+"
  ELSE PercentEncode(c)

FormEncodeTable == [c \in AllChars |-> FormEncodeChar(c)]

FormSerialize(pairs) ==
  Join([i \in 1..Len(pairs) |->
          MapChars(FormEncodeTable, pairs[i][1]) \o "="
            \o MapChars(FormEncodeTable, pairs[i][2])], "&")

\* url.searchParams: the pairs of the URL's query.
SearchParams(url) == IF url.query = Null THEN <<>> ELSE FormParse(url.query)

\* URLSearchParams.set on a list of pairs: the first pair of that name gets
\* the value and the others of that name go; without one, a pair is added.
ParamsSet(pairs, name, value) ==
  IF \E i \in 1..Len(pairs) : pairs[i][1] = name
  THEN LET first == CHOOSE i \in 1..Len(pairs) :
                      /\ pairs[i][1] = name
                      /\ \A j \in 1..(i - 1) : pairs[j][1] # name
       IN SelectSeq([i \in 1..Len(pairs) |->
                       IF i = first THEN <<name, value>>
                       ELSE IF pairs[i][1] = name THEN <<>> ELSE pairs[i]],
                    LAMBDA pr : pr # <<>>)
  ELSE Append(pairs, <<name, value>>)

\* url.searchParams.set(name, value): the URL's query becomes the
\* serialization of the updated list.
SearchParamsSet(url, name, value) ==
  [url EXCEPT !.query = FormSerialize(ParamsSet(SearchParams(url), name, value))]

\* url.searchParams.toString().
SearchParamsToString(url) == FormSerialize(SearchParams(url))

\* url.toString(): the URL serializer.
UrlToString(url) ==
  url.origin \o url.pathname
    \o (IF url.query = Null THEN "" ELSE "?" \o url.query)
    \o (IF url.fragment = Null THEN "" ELSE "#" \o url.fragment)

\* ---- getSignedImageUrlUsingID
\* The default of expiresInSeconds.
DefaultExpiresInSeconds == 3600

ImageOrigin == "https://imagedelivery.net"

\* A slip: the expiry taken from Date.now() without the division by 1000.
getSignedImageUrlUsingID_NoSeconds(accountHash, imageId, variant, signingKey, expiresInSeconds, nowMs) ==
  LET expires == IF expiresInSeconds = {} THEN DefaultExpiresInSeconds
                 ELSE CHOOSE n \in expiresInSeconds : TRUE
      expiration == nowMs + expires
      url0 == NewURL(ImageOrigin,
                     "/" \o accountHash \o "/" \o imageId \o "/" \o variant)
      url1 == SearchParamsSet(url0, "exp", NatToString(expiration))
      stringToSign == url1.pathname \o "?" \o SearchParamsToString(url1)
      signature == ToHex(HmacSha256(signingKey, stringToSign))
      url2 == SearchParamsSet(url1, "sig", signature)
  IN UrlToString(url2)

\* getSignedImageUrlUsingID(...), called when Date.now() is nowMs.  The
\* optional expiresInSeconds is {} when omitted and {n} when n is passed.
getSignedImageUrlUsingID(accountHash, imageId, variant, signingKey, expiresInSeconds, nowMs) ==
  LET expires == IF expiresInSeconds = {} THEN DefaultExpiresInSeconds
                 ELSE CHOOSE n \in expiresInSeconds : TRUE
      expiration == (nowMs \div 1000) + expires
      url0 == NewURL(ImageOrigin,
                     "/" \o accountHash \o "/" \o imageId \o "/" \o variant)
      url1 == SearchParamsSet(url0, "exp", NatToString(expiration))
      stringToSign == url1.pathname \o "?" \o SearchParamsToString(url1)
      mac == HmacSha256(signingKey, stringToSign)
      signature == ToHex(mac)
      url2 == SearchParamsSet(url1, "sig", signature)
  IN UrlToString(url2)

\* The strings of exactly n characters over the alphabet chars.
RECURSIVE StringsOfLen(_, _)
StringsOfLen(chars, n) ==
  IF n = 0 THEN {""}
  ELSE {s \o c : s \in StringsOfLen(chars, n - 1), c \in chars}

\* The strings of 1 .. n characters over the alphabet chars.
StringsUpTo(chars, n) == UNION {StringsOfLen(chars, k) : k \in 1..n}

\* The characters of the arguments: one that the URL parser leaves alone in
\* a path, and the ones it encodes or takes as a delimiter.
IdChars == {"a", " ", "?", "#"}

ImageArgs ==
  [accountHash : {"acct"},
   imageId : {"id", "i?"},
   variant : StringsUpTo(IdChars, MaxVariantLen),
   signingKey : {"key"},
   expiresInSeconds : {{}, {600}}]

ImageInit ==
  /\ imgArgs \in ImageArgs
  /\ imgNow = 0
  /\ imgCalls = <<>>

\* Time passes: Date.now() moves on by 400 ms.
ImageTick ==
  /\ imgNow < MaxTicks * 400
  /\ imgNow' = imgNow + 400
  /\ UNCHANGED <<imgArgs, imgCalls>>
  /\ UNCHANGED imageOthers

\* The caller calls getSignedImageUrlUsingID with its arguments.
ImageCall ==
  /\ Len(imgCalls) < MaxImageCalls
  /\ imgCalls' = Append(imgCalls,
       [now |-> imgNow,
        url |-> getSignedImageUrlUsingID(imgArgs.accountHash, imgArgs.imageId,
                  imgArgs.variant, imgArgs.signingKey,
                  imgArgs.expiresInSeconds, imgNow)])
  /\ UNCHANGED <<imgArgs, imgNow>>
  /\ UNCHANGED imageOthers

ImageNext == ImageTick \/ ImageCall

\* ========================================================= simple-r2-utils
\* now.toISOString() at the clock readings of the model, in order.
Instants ==
  << "2024-01-31T23:59:59.999Z", "2024-02-01T00:00:00.000Z",
     "2024-12-09T08:07:06.005Z" >>

\* s.replace(/[:\-]|\.\d{3}/g, ""): every ":" and "-" and every "." that
\* three digits follow (with the digits) is removed.
RECURSIVE ReplaceDateSeparators(_)
ReplaceDateSeparators(s) ==
  IF Len(s) = 0 THEN ""
  ELSE IF Char(s, 1) \in {":", "-"} THEN ReplaceDateSeparators(Tail(s))
  ELSE IF /\ Char(s, 1) = "."
          /\ Len(s) >= 4
          /\ \A i \in 2..4 : IsDigit(Char(s, i))
       THEN ReplaceDateSeparators(SubSeq(s, 5, Len(s)))
  ELSE Char(s, 1) \o ReplaceDateSeparators(Tail(s))

\* s.slice(0, n).
Slice0(s, n) == SubSeq(s, 1, IF n < Len(s) THEN n ELSE Len(s))

\* getSignatureKey: the chain of HMACs, each keyed by the one before.
getSignatureKey(key, dateStamp, regionName, serviceName) ==
  LET kDate == HmacSha256("AWS4" \o key, dateStamp)
      kRegion == HmacSha256(kDate, regionName)
      kService == HmacSha256(kRegion, serviceName)
      kSigning == HmacSha256(kService, "aws4_request")
  IN kSigning

\* The primary collation weight of a character of a parameter name
\* (letters, digits and "-"): punctuation before digits before letters,
\* letters without regard to case.
CollationWeight(c) ==
  IF IsDigit(c) THEN 10 + (CodeOf(c) - 48)
  ELSE IF IsUpper(c) THEN 100 + (CodeOf(c) - 65)
  ELSE IF IsLower(c) THEN 100 + (CodeOf(c) - 97)
  ELSE 1

\* The first index at which a and b differ in the weight w, 0 if none.
FirstDifference(a, b, w) ==
  LET n == IF Len(a) < Len(b) THEN Len(a) ELSE Len(b)
      diff == {i \in 1..n : w[Char(a, i)] # w[Char(b, i)]}
  IN IF diff = {} THEN 0 ELSE CHOOSE i \in diff : \A j \in diff : i <= j

CollationTable == [c \in AllChars |-> CollationWeight(c)]

\* Lower case before upper case, when nothing else tells two names apart.
CaseTable == [c \in AllChars |-> IF IsUpper(c) THEN 1 ELSE 0]

\* a.localeCompare(b) for parameter names: negative, zero or positive.
localeCompare(a, b) ==
  LET p == FirstDifference(a, b, CollationTable)
      t == FirstDifference(a, b, CaseTable)
  IN IF p # 0
     THEN (IF CollationTable[Char(a, p)] < CollationTable[Char(b, p)]
           THEN -1 ELSE 1)
     ELSE IF Len(a) # Len(b) THEN (IF Len(a) < Len(b) THEN -1 ELSE 1)
     ELSE IF t # 0
     THEN (IF CaseTable[Char(a, t)] < CaseTable[Char(b, t)] THEN -1 ELSE 1)
     ELSE 0

\* Array.prototype.sort by ([aKey], [bKey]) => aKey.localeCompare(bKey): a
\* stable sort of the entries by name.
RECURSIVE SortEntries(_)
SortEntries(entries) ==
  IF Len(entries) <= 1 THEN entries
  ELSE LET x == entries[Len(entries)]
           sorted == SortEntries(SubSeq(entries, 1, Len(entries) - 1))
           k == Cardinality({i \in 1..Len(sorted) :
                               localeCompare(sorted[i][1], x[1]) <= 0})
       IN SubSeq(sorted, 1, k) \o <<x>> \o SubSeq(sorted, k + 1, Len(sorted))

\* buildCanonicalQueryString(params).
buildCanonicalQueryString(params) ==
  LET sorted == SortEntries(params)
  IN Join([i \in 1..Len(sorted) |->
             encodeURIComponent(sorted[i][1]) \o "="
               \o encodeURIComponent(sorted[i][2])], "&")

\* The host of the bucket's endpoint.
R2Host(bucketName, accountId) ==
  bucketName \o "." \o accountId \o ".r2.cloudflarestorage.com"

\* The shared body of the two functions: they differ in the method, the
\* signed headers with their canonical form, and the x-id parameter.
PreSignedUrl(method, xId, signedHeaders, canonicalHeaders, fileName, accountId, accessKeyId, secretAccessKey, bucketName, expiresIn, nowIso) ==
  LET endpoint == "https://" \o R2Host(bucketName, accountId)
      region == "auto"
      service == "s3"
      amzDate == ReplaceDateSeparators(nowIso)
      dateStamp == Slice0(amzDate, 8)
      credentialScope ==
        dateStamp \o "/" \o region \o "/" \o service \o "/aws4_request"
      credential == accessKeyId \o "/" \o credentialScope
      queryParams ==
        << <<"X-Amz-Algorithm", "AWS4-HMAC-SHA256">>,
           <<"X-Amz-Credential", credential>>,
           <<"X-Amz-Date", amzDate>>,
           <<"X-Amz-Expires", NatToString(expiresIn)>>,
           <<"X-Amz-SignedHeaders", signedHeaders>>,
           <<"X-Amz-Content-Sha256", "UNSIGNED-PAYLOAD">>,
           <<"x-id", xId>> >>
      canonicalQueryString == buildCanonicalQueryString(queryParams)
      canonicalUri == "/" \o fileName
      payloadHash == "UNSIGNED-PAYLOAD"
      canonicalRequest ==
        Join(<<method, canonicalUri, canonicalQueryString, canonicalHeaders,
               signedHeaders, payloadHash>>, "\n")
      stringToSign ==
        Join(<<"AWS4-HMAC-SHA256", amzDate, credentialScope,
               Sha256Hex(canonicalRequest)>>, "\n")
      signingKey == getSignatureKey(secretAccessKey, dateStamp, region, service)
      signature == ToHex(HmacSha256(signingKey, stringToSign))
      signedParams == ParamsSet(queryParams, "X-Amz-Signature", signature)
  IN endpoint \o canonicalUri \o "?" \o buildCanonicalQueryString(signedParams)

\* getPreSignedUploadUrl(...), called when new Date().toISOString() is nowIso.
getPreSignedUploadUrl(fileName, accountId, accessKeyId, secretAccessKey, bucketName, expiresIn, contentType, nowIso) ==
  PreSignedUrl("PUT", "PutObject", "content-type;host",
    "content-type:" \o contentType \o "\nhost:"
      \o R2Host(bucketName, accountId) \o "\n",
    fileName, accountId, accessKeyId, secretAccessKey, bucketName, expiresIn,
    nowIso)

\* getPreSignedDownloadUrl(...), called when new Date().toISOString() is
\* nowIso.
getPreSignedDownloadUrl(fileName, accountId, accessKeyId, secretAccessKey, bucketName, expiresIn, nowIso) ==
  PreSignedUrl("GET", "GetObject", "host",
    "host:" \o R2Host(bucketName, accountId) \o "\n",
    fileName, accountId, accessKeyId, secretAccessKey, bucketName, expiresIn,
    nowIso)

\* The characters of the file names: a letter, the path separator, and a
\* space, which a URL cannot carry unencoded.
NameChars == {"a", "/", " "}

R2Args ==
  [fileName : StringsUpTo(NameChars, MaxNameLen),
   accountId : {"acct"},
   accessKeyId : {"AKID"},
   secretAccessKey : {"secret"},
   bucketName : {"bucket"},
   expiresIn : {60, 3600},
   contentType : {"image/jpeg"}]

R2Init ==
  /\ r2Args \in R2Args
  /\ r2Now = 1
  /\ r2Calls = <<>>

\* Time passes: the next reading of the clock.
R2Tick ==
  /\ r2Now < Len(Instants)
  /\ r2Now' = r2Now + 1
  /\ UNCHANGED <<r2Args, r2Calls>>
  /\ UNCHANGED r2Others

\* The caller asks for an upload URL.
R2Upload ==
  /\ Len(r2Calls) < MaxR2Calls
  /\ r2Calls' = Append(r2Calls,
       [method |-> "PUT", now |-> r2Now,
        url |-> getPreSignedUploadUrl(r2Args.fileName, r2Args.accountId,
                  r2Args.accessKeyId, r2Args.secretAccessKey,
                  r2Args.bucketName, r2Args.expiresIn, r2Args.contentType,
                  Instants[r2Now])])
  /\ UNCHANGED <<r2Args, r2Now>>
  /\ UNCHANGED r2Others

\* The caller asks for a download URL.
R2Download ==
  /\ Len(r2Calls) < MaxR2Calls
  /\ r2Calls' = Append(r2Calls,
       [method |-> "GET", now |-> r2Now,
        url |-> getPreSignedDownloadUrl(r2Args.fileName, r2Args.accountId,
                  r2Args.accessKeyId, r2Args.secretAccessKey,
                  r2Args.bucketName, r2Args.expiresIn, Instants[r2Now])])
  /\ UNCHANGED <<r2Args, r2Now>>
  /\ UNCHANGED r2Others

R2Next == R2Tick \/ R2Upload \/ R2Download

\* ======================================================= simple-sslcommerz
\* The characters \s matches, among the characters of the model.
WhiteSpace == {" ", "\n"}

\* Whether the object has the property (it is not undefined).
Has(obj, field) == field \in DOMAIN obj

\* !value || (typeof value === "string" && !value.trim()) for a field of
\* the payment data: total_amount is a number, the other fields are strings.
MissingField(obj, field) ==
  IF ~Has(obj, field) THEN TRUE
  ELSE IF field = "total_amount" THEN obj[field] = 0
  ELSE TrimSpaces(obj[field]) = ""

\* A slip: the pattern applied to the text as it is, untrimmed.
isValidEmail_NoTrim(email) ==
  \E i \in 2..Len(email) : \E j \in (i + 2)..(Len(email) - 1) :
    /\ Char(email, i) = "@"
    /\ Char(email, j) = "."
    /\ \A k \in (1..Len(email)) \ {i} :
         Char(email, k) \notin WhiteSpace \cup {"@"}

\* isValidEmail: /^[^\s@]+@[^\s@]+\.[^\s@]+$/ on the trimmed text.
isValidEmail(email) ==
  LET t == TrimSpaces(email)
  IN \E i \in 2..Len(t) : \E j \in (i + 2)..(Len(t) - 1) :
       /\ Char(t, i) = "@"
       /\ Char(t, j) = "."
       /\ \A k \in (1..Len(t)) \ {i} : Char(t, k) \notin WhiteSpace \cup {"@"}

\* phone.replace(/[\s\-\(\)]/g, "") per character.
PhoneCleanTable ==
  [c \in AllChars |-> IF c \in WhiteSpace \cup {"-", "(", ")"} THEN "" ELSE c]

\* isValidPhone: /^(\+880|880|0)?1[3-9]\d{8}$/ on the cleaned text.
isValidPhone(phone) ==
  LET cleaned == MapChars(PhoneCleanTable, phone)
  IN \E prefix \in {"", "+880", "880", "0"} :
       /\ Len(cleaned) = Len(prefix) + 10
       /\ SubSeq(cleaned, 1, Len(prefix)) = prefix
       /\ Char(cleaned, Len(prefix) + 1) = "1"
       /\ Char(cleaned, Len(prefix) + 2) \in CharsOf("3456789")
       /\ \A k \in (Len(prefix) + 3)..Len(cleaned) : IsDigit(Char(cleaned, k))

\* One message if the condition holds, none otherwise.
PushIf(cond, message) == IF cond THEN <<message>> ELSE <<>>

\* validatePaymentData(paymentData): the list of validation messages.
validatePaymentData(paymentData) ==
  LET required ==
        <<"total_amount", "tran_id", "cus_name", "cus_email", "cus_phone">>
      missing == SelectSeq(required, LAMBDA f : MissingField(paymentData, f))
  IN [i \in 1..Len(missing) |-> "Missing required field: " \o missing[i]]
     \o (IF Has(paymentData, "total_amount")
         THEN PushIf(paymentData.total_amount <= 0, "Amount must be a positive number")
              \o PushIf(paymentData.total_amount < 10, "Minimum amount is 10 BDT")
              \o PushIf(paymentData.total_amount > 500000,
                        "Maximum amount is 500,000 BDT")
         ELSE <<>>)
     \o PushIf(/\ Has(paymentData, "cus_email")
               /\ paymentData.cus_email # ""
               /\ ~isValidEmail(paymentData.cus_email), "Invalid email format")
     \o PushIf(/\ Has(paymentData, "cus_phone")
               /\ paymentData.cus_phone # ""
               /\ ~isValidPhone(paymentData.cus_phone), "Invalid phone number format")
     \o PushIf(/\ Has(paymentData, "currency")
               /\ paymentData.currency # ""
               /\ paymentData.currency \notin {"BDT", "USD"},
               "Invalid currency. Supported: BDT, USD")

\* validateRefundData(refundData): the list of validation messages.
validateRefundData(refundData) ==
  PushIf(IF Has(refundData, "refund_amount") THEN refundData.refund_amount <= 0 ELSE TRUE,
         "Refund amount must be a positive number")
  \o PushIf(IF Has(refundData, "bank_tran_id")
            THEN TrimSpaces(refundData.bank_tran_id) = "" ELSE TRUE,
            "Bank transaction ID is required")
  \o (IF Has(refundData, "refund_amount")
      THEN PushIf(refundData.refund_amount < 1, "Minimum refund amount is 1 BDT")
           \o PushIf(refundData.refund_amount > 500000,
                     "Maximum refund amount is 500,000 BDT")
      ELSE <<>>)

\* createError(message, code, details): an Error with the code and details
\* properties set; details is {} when the argument is left out.
createError(message, code, details) ==
  [name |-> "Error", message |-> message, code |-> code, details |-> details]

\* The catch block of the four methods: an Error that has a code property is
\* thrown on as it is, anything else is wrapped under the method's own code.
CatchBlock(e, prefix, code) ==
  IF Has(e, "code") THEN e ELSE createError(prefix \o e.message, code, {e})

\* A call that threw e, returned, or awaits the reply to its HTTP request.
Threw(method, arg, issued, reply, e) ==
  [method |-> method, arg |-> arg, state |-> "threw", thrown |-> <<e>>,
   reply |-> reply, requests |-> issued]

Returned(method, arg, issued, reply) ==
  [method |-> method, arg |-> arg, state |-> "returned", thrown |-> <<>>,
   reply |-> reply, requests |-> issued]

Pending(method, arg, request) ==
  [method |-> method, arg |-> arg, state |-> "pending", thrown |-> <<>>,
   reply |-> <<>>, requests |-> <<request>>]

\* A slip: initPayment without the validation step.
initPayment_Unvalidated(paymentData) ==
  Pending("initPayment", paymentData,
          [method |-> "POST", path |-> "/gwprocess/v4/api.php"])

\* initPayment(paymentData) up to its await fetch(...).
initPayment(paymentData) ==
  LET validationErrors == validatePaymentData(paymentData)
  IN IF Len(validationErrors) > 0
     THEN Threw("initPayment", paymentData, <<>>, <<>>,
                createError("Payment data validation failed",
                            "VALIDATION_ERROR", {validationErrors}))
     ELSE Pending("initPayment", paymentData,
                  [method |-> "POST", path |-> "/gwprocess/v4/api.php"])

\* validatePayment(val_id) up to its await fetch(...).
validatePayment(val_id) ==
  IF TrimSpaces(val_id) = ""
  THEN Threw("validatePayment", val_id, <<>>, <<>>,
             createError("Validation ID is required", "MISSING_VAL_ID", {}))
  ELSE Pending("validatePayment", val_id,
               [method |-> "GET",
                path |-> "/validator/api/validationserverAPI.php"])

\* initiateRefund(refundData) up to its await fetch(...).
initiateRefund(refundData) ==
  LET validationErrors == validateRefundData(refundData)
  IN IF Len(validationErrors) > 0
     THEN Threw("initiateRefund", refundData, <<>>, <<>>,
                createError("Refund data validation failed",
                            "VALIDATION_ERROR", {validationErrors}))
     ELSE Pending("initiateRefund", refundData,
                  [method |-> "GET",
                   path |-> "/validator/api/merchantTransIDvalidationAPI.php"])

\* checkRefundStatus(refund_ref_id) up to its await fetch(...).
checkRefundStatus(refund_ref_id) ==
  IF TrimSpaces(refund_ref_id) = ""
  THEN Threw("checkRefundStatus", refund_ref_id, <<>>, <<>>,
             createError("Refund reference ID is required",
                         "MISSING_REFUND_REF_ID", {}))
  ELSE Pending("checkRefundStatus", refund_ref_id,
               [method |-> "GET",
                path |-> "/validator/api/merchantTransIDvalidationAPI.php"])

\* The response bodies of the model, and what JSON.parse makes of them.
JsonBodies == {"{\"status\":\"VALID\",\"val_id\":\"V1\"}", "{\"status\":\"FAILED\"}"}
Bodies == JsonBodies \cup {"<html>Bad Gateway</html>"}

JsonParses(text) == text \in JsonBodies

\* Whether the parsed body has a truthy val_id.
HasValId(text) == text = "{\"status\":\"VALID\",\"val_id\":\"V1\"}"

\* What fetch rejects with: the TypeError of the fetch standard, which has
\* no code property, and a runtime's own error that carries one (Bun:
\* code "ConnectionRefused").
FetchErrors ==
  { [name |-> "TypeError", message |-> "fetch failed"],
    [name |-> "Error", message |-> "Unable to connect",
     code |-> "ConnectionRefused"] }

\* How the await fetch(...) of a call ends.
FetchReplies ==
  { [kind |-> "response", ok |-> TRUE, status |-> 200, statusText |-> "OK",
     body |-> b] : b \in Bodies }
  \cup { [kind |-> "response", ok |-> FALSE, status |-> 502,
          statusText |-> "Bad Gateway", body |-> "<html>Bad Gateway</html>"] }
  \cup { [kind |-> "rejects", error |-> e] : e \in FetchErrors }

\* throw createError(`HTTP ${response.status}: ${response.statusText}`,
\* "HTTP_ERROR").
HttpError(reply) ==
  createError("HTTP " \o NatToString(reply.status) \o ": " \o reply.statusText,
              "HTTP_ERROR", {})

\* What is thrown inside the try block of initPayment, initiateRefund and
\* checkRefundStatus once fetch has ended with reply: a sequence of at most
\* one error.
ThrownByTextAndParse(reply) ==
  IF reply.kind = "rejects" THEN <<reply.error>>
  ELSE IF ~reply.ok THEN <<HttpError(reply)>>
  ELSE IF ~JsonParses(reply.body)
  THEN <<createError("Invalid JSON response: " \o reply.body, "PARSE_ERROR", {})>>
  ELSE <<>>

\* What is thrown inside the try block of validatePayment: response.json()
\* throws a SyntaxError on a body that is not JSON.
ThrownByValidate(reply) ==
  IF reply.kind = "rejects" THEN <<reply.error>>
  ELSE IF ~reply.ok THEN <<HttpError(reply)>>
  ELSE IF ~JsonParses(reply.body)
  THEN << [name |-> "SyntaxError", message |-> "Unexpected token"] >>
  ELSE IF ~HasValId(reply.body)
  THEN <<createError("Invalid validation response - missing val_id",
                     "INVALID_RESPONSE", {})>>
  ELSE <<>>

\* The message prefix and the code of each method's catch block.
CatchPrefix(method) ==
  CASE method = "initPayment" -> "Payment initialization failed: "
    [] method = "validatePayment" -> "Payment validation failed: "
    [] method = "initiateRefund" -> "Refund initialization failed: "
    [] method = "checkRefundStatus" -> "Refund status check failed: "

CatchCode(method) ==
  CASE method = "initPayment" -> "NETWORK_ERROR"
    [] method = "validatePayment" -> "VALIDATION_FAILED"
    [] method = "initiateRefund" -> "NETWORK_ERROR"
    [] method = "checkRefundStatus" -> "REFUND_STATUS_FAILED"

\* The rest of a pending call, from the end of its await fetch(...).
AfterFetch(call, reply) ==
  LET thrown == IF call.method = "validatePayment" THEN ThrownByValidate(reply)
                ELSE ThrownByTextAndParse(reply)
  IN IF thrown = <<>>
     THEN Returned(call.method, call.arg, call.requests, <<reply>>)
     ELSE Threw(call.method, call.arg, call.requests, <<reply>>,
                CatchBlock(thrown[1], CatchPrefix(call.method),
                           CatchCode(call.method)))

\* An object with the one property, for each of the values, and the object
\* without it.
Optional(field, values) ==
  {[f \in {field} |-> v] : v \in values} \cup {[f \in {} |-> ""]}

PaymentInputs ==
  { a @@ e @@ c @@ [tran_id |-> t, cus_phone |-> p, cus_name |-> "John Doe"] :
      a \in Optional("total_amount", {0, 5, 1000, 500001}),
      t \in {" ", "TXN1"},
      e \in Optional("cus_email", {"john@example.com", "jo hn@example"}),
      p \in {"+880 1700-000000", "01200000000"},
      c \in Optional("currency", {"EUR"}) }

RefundInputs ==
  { a @@ b : a \in Optional("refund_amount", {-5, 0, 500, 500001}),
             b \in Optional("bank_tran_id", {" ", "BANK1"}) }

IdInputs == {"", " ", "ID1"}

SslInit ==
  /\ sslCall = Returned("none", "", <<>>, <<>>)
  /\ sslDone = 0

\* A call may start when the one before has ended.
CanCall == sslCall.state # "pending" /\ sslDone < MaxSslCalls

\* The call has started: it has thrown already or awaits its fetch.
Started(call) ==
  /\ sslCall' = call
  /\ sslDone' = IF call.state = "pending" THEN sslDone ELSE sslDone + 1
  /\ UNCHANGED sslOthers

SslInitPayment == CanCall /\ \E d \in PaymentInputs : Started(initPayment(d))

SslValidatePayment == CanCall /\ \E id \in IdInputs : Started(validatePayment(id))

SslInitiateRefund == CanCall /\ \E d \in RefundInputs : Started(initiateRefund(d))

SslCheckRefundStatus ==
  CanCall /\ \E id \in IdInputs : Started(checkRefundStatus(id))

\* The fetch of the pending call ends, and the call with it.
SslFetchEnds ==
  /\ sslCall.state = "pending"
  /\ \E reply \in FetchReplies : sslCall' = AfterFetch(sslCall, reply)
  /\ sslDone' = sslDone + 1
  /\ UNCHANGED sslOthers

SslNext ==
  \/ SslInitPayment
  \/ SslValidatePayment
  \/ SslInitiateRefund
  \/ SslCheckRefundStatus
  \/ SslFetchEnds

\* ------------------------------------ simple-sslcommerz: transaction IDs
\* s.padStart(n, c): s with c put in front until it has n characters.
RECURSIVE PadStart(_, _, _)
PadStart(s, n, c) == IF Len(s) >= n THEN s ELSE PadStart(c \o s, n, c)

\* generateTransactionId(prefix, suffix) when Date.now() is timestamp and
\* Math.floor(Math.random() * 10000) is draw; prefix and suffix are {} when
\* the argument is left out.
generateTransactionId(prefix, suffix, timestamp, draw) ==
  LET pre == IF prefix = {} THEN "TXN" ELSE CHOOSE x \in prefix : TRUE
      suf == IF suffix = {} THEN "" ELSE CHOOSE x \in suffix : TRUE
      random == PadStart(NatToString(draw), 4, "0")
  IN pre \o NatToString(timestamp) \o random \o suf

\* Values Math.floor(Math.random() * 10000) takes, of one to four digits.
RandomDraws == {0, 7, 42, 9999}

TxnInit ==
  /\ txnNow = 9
  /\ txnIds = <<>>

\* Time passes: the next millisecond.
TxnTick ==
  /\ txnNow < 9 + MaxTxnTicks
  /\ txnNow' = txnNow + 1
  /\ UNCHANGED txnIds
  /\ UNCHANGED txnOthers

\* The caller asks for a transaction ID.
TxnGenerate ==
  /\ Len(txnIds) < MaxTxnCalls
  /\ \E prefix \in {{}, {"ORDER"}}, suffix \in {{}, {"001"}}, draw \in RandomDraws :
       txnIds' = Append(txnIds,
         [prefix |-> prefix, suffix |-> suffix, now |-> txnNow,
          id |-> generateTransactionId(prefix, suffix, txnNow, draw)])
  /\ UNCHANGED txnNow
  /\ UNCHANGED txnOthers

TxnNext == TxnTick \/ TxnGenerate

\* --------------------------------------- simple-sslcommerz: configuration
\* The value of an optional property: {} when undefined, {v} otherwise.
Get(obj, field) == IF Has(obj, field) THEN {obj[field]} ELSE {}

\* !config[field] for a text property: undefined or the empty string.
Falsy(obj, field) == ~Has(obj, field) \/ obj[field] = ""

\* The schemes whose URLs need a host.
SpecialSchemes == {"http", "https", "ws", "wss", "ftp"}

\* new URL(url) does not throw: url has a scheme (a letter, then letters,
\* digits, "+", "-", "."), a ":", and for a special scheme a host.
ParsesAsUrl(url) ==
  LET colon == IndexOf(url, ":")
      scheme == SubSeq(url, 1, colon - 1)
      rest == SubSeq(url, colon + 1, Len(url))
      slashes == {i \in 1..Len(rest) : \A j \in 1..i : Char(rest, j) \in {"/", "\\"}}
      host == SubSeq(rest, Cardinality(slashes) + 1, Len(rest))
  IN /\ colon >= 2
     /\ IsUpper(Char(url, 1)) \/ IsLower(Char(url, 1))
     /\ \A i \in 1..(colon - 1) :
          IsAlnum(Char(url, i)) \/ Char(url, i) \in {"+", "-", "."}
     /\ scheme \in SpecialSchemes
          => /\ Len(host) > 0
             /\ Char(host, 1) \notin {"/", "?", "#", ":", " "}

\* url.startsWith(head).
StartsWith(url, head) ==
  Len(url) >= Len(head) /\ SubSeq(url, 1, Len(head)) = head

\* isValidUrl(url, baseUrl); baseUrl is {} when undefined.
isValidUrl(url, baseUrl) ==
  IF ParsesAsUrl(url) THEN TRUE
  ELSE IF /\ baseUrl # {} /\ baseUrl # {""}
          /\ (StartsWith(url, "/") \/ StartsWith(url, "./"))
  THEN \A b \in baseUrl : ParsesAsUrl(b)
  ELSE FALSE

\* The result of a part of the constructor: the error it threw, if any, and
\* what it logged.
Outcome(thrown, logs) == [thrown |-> thrown, logs |-> logs]

\* this.logger.warn(message): the property is undefined until the
\* constructor has assigned it, and the call then throws a TypeError.
LoggerWarn(logger, message) ==
  IF logger = {}
  THEN Outcome(<< [name |-> "TypeError",
                   message |-> "Cannot read properties of undefined (reading 'warn')"] >>,
               <<>>)
  ELSE Outcome(<<>>, << [level |-> "warn", message |-> message] >>)

\* The loop of validateConfig over the callback URLs, from the k-th on.
RECURSIVE ValidateUrls(_, _, _, _)
ValidateUrls(config, logger, urls, k) ==
  IF k > Len(urls) THEN Outcome(<<>>, <<>>)
  ELSE IF isValidUrl(config[urls[k]], Get(config, "base_url"))
  THEN ValidateUrls(config, logger, urls, k + 1)
  ELSE IF Falsy(config, "base_url")
  THEN LET warned ==
             LoggerWarn(logger, "URL validation skipped for " \o urls[k]
               \o ", please provide base_url for relative URLs")
           rest == ValidateUrls(config, logger, urls, k + 1)
       IN IF warned.thrown # <<>> THEN warned
          ELSE Outcome(rest.thrown, warned.logs \o rest.logs)
  ELSE Outcome(<<createError("Invalid URL format for " \o urls[k],
                             "INVALID_URL", {})>>, <<>>)

\* validateConfig(config), run with this.logger being logger ({} while it
\* is undefined).
validateConfig(config, logger) ==
  LET required == <<"store_id", "store_passwd", "success_url", "fail_url",
                    "cancel_url", "ipn_url">>
      missing == SelectSeq(required, LAMBDA f : Falsy(config, f))
  IN IF Len(missing) > 0
     THEN Outcome(<<createError("Missing required configuration: "
                                  \o Join(missing, ", "), "CONFIG_ERROR", {})>>,
                  <<>>)
     ELSE IF Has(config, "skip_url_validation") /\ config.skip_url_validation
     THEN Outcome(<<>>, <<>>)
     ELSE ValidateUrls(config, logger,
            <<"success_url", "fail_url", "cancel_url", "ipn_url">>, 1)

\* new SSLCommerzUtil(config): validateConfig runs first, before this.logger
\* is assigned; then the fields are set and the initialisation is logged.
NewSSLCommerzUtil(config) ==
  LET validated == validateConfig(config, {})
  IN IF validated.thrown # <<>>
     THEN [state |-> "threw", config |-> config, thrown |-> validated.thrown,
           logs |-> validated.logs]
     ELSE [state |-> "constructed", config |-> config, thrown |-> <<>>,
           logs |-> validated.logs
             \o << [level |-> "info", message |-> "SSLCommerzUtil initialized"] >>]

\* A slip: a summary that keeps the password.
getConfigSummary_WithPassword(config) ==
  [store_id |-> config.store_id, store_passwd |-> config.store_passwd,
   store_name |-> Get(config, "store_name"), is_live |-> config.is_live,
   debug |-> Get(config, "debug")]

\* getConfigSummary() of an instance whose this.config is config.
getConfigSummary(config) ==
  [store_id |-> config.store_id, store_name |-> Get(config, "store_name"),
   is_live |-> config.is_live, debug |-> Get(config, "debug")]

\* The store passwords of the model.
Passwords == {"qwerty", "s3cret"}

\* The configurations a caller passes.
Configs ==
  { i @@ p @@ n @@ b @@ k @@ d @@
    [is_live |-> l, success_url |-> s, fail_url |-> f,
     cancel_url |-> "https://shop.example/cancel", ipn_url |-> "/payment-ipn"] :
      i \in Optional("store_id", {"testbox"}),
      p \in Optional("store_passwd", Passwords),
      n \in Optional("store_name", {"Shop"}),
      b \in Optional("base_url", {"https://shop.example", "shop"}),
      k \in Optional("skip_url_validation", {TRUE}),
      d \in Optional("debug", {TRUE}),
      l \in BOOLEAN,
      s \in {"https://shop.example/ok", "/payment-success", "payment-success"},
      f \in {"https://shop.example/fail", ""} }

CfgInit ==
  /\ cfgUtil = [state |-> "none", config |-> <<>>, thrown |-> <<>>, logs |-> <<>>]
  /\ cfgSummary = <<>>

\* The caller constructs the instance.
CfgConstruct ==
  /\ cfgUtil.state = "none"
  /\ \E config \in Configs : cfgUtil' = NewSSLCommerzUtil(config)
  /\ UNCHANGED cfgSummary
  /\ UNCHANGED cfgOthers

\* The caller asks the instance for its configuration summary.
CfgSummary ==
  /\ cfgUtil.state = "constructed"
  /\ cfgSummary = <<>>
  /\ cfgSummary' = <<getConfigSummary(cfgUtil.config)>>
  /\ UNCHANGED cfgUtil
  /\ UNCHANGED cfgOthers

CfgNext == CfgConstruct \/ CfgSummary

\* ------------------------------------- simple-sslcommerz: payment data
\* The payment data a caller may pass to validatePaymentData.
PayDataInputs ==
  { a @@ t @@ n @@ e @@ p @@ c :
      a \in Optional("total_amount", {0, 9, 10, 500000, 500001}),
      t \in Optional("tran_id", {" ", "TXN1"}),
      n \in Optional("cus_name", {"John Doe"}),
      e \in Optional("cus_email",
             {"john@example.com", " john@example.com ", "john@example",
              "jo hn@example.com", "john@@example.com", "@example.com",
              "john@example."}),
      p \in Optional("cus_phone",
             {"01700000000", "+880 1700-000000", "(880) 1700000000",
              "01200000000", "0170000000", "+88 01700000000"}),
      c \in Optional("currency", {"", "BDT", "USD", "EUR"}) }

PayInit ==
  /\ payData \in PayDataInputs
  /\ payResult = <<>>

\* The caller validates the payment data.
PayValidate ==
  /\ payResult = <<>>
  /\ payResult' = <<validatePaymentData(payData)>>
  /\ UNCHANGED payData
  /\ UNCHANGED payOthers

PayNext == PayValidate

\* ------------------------------------ react-hooks: use-localstorage
\* The values the component stores, and the keys it uses.
LsValues == 0 .. MaxLsValue
LsKeys == {"a", "b"}

\* JSON.stringify of a stored value, and JSON.parse of an entry's text:
\* {v} when the text is the JSON text of v, {} when parsing throws.
JSONstringify(v) == NatToString(v)
JSONparse_Length(text) == { Len(text) }
JSONparse(text) == { v \in LsValues : JSONstringify(v) = text }

\* The texts an entry may hold: JSON texts, and one that is not JSON.
LsTexts == { JSONstringify(v) : v \in LsValues } \cup { "{" }

\* The updater functions the component passes to setValue, and a call's
\* argument: a direct value or an updater.
Updaters == { "inc", "dbl" }
ApplyUpdater(u, prev) == IF u = "inc" THEN prev + 1 ELSE prev * 2
SetValueArgs ==
  [ op : {"set"}, value : LsValues ] \cup [ op : Updaters, value : {0} ]

\* const valueToStore = value instanceof Function ? value(storedValue) : value
\* with the storedValue of the render that created setValue.
ValueToStore(arg, rendered) ==
  IF arg.op = "set" THEN arg.value ELSE ApplyUpdater(arg.op, rendered)

LsStep(op, value, threw) == [op |-> op, value |-> value, threw |-> threw]

LsInit ==
  /\ lsStore \in [LsKeys -> { {} } \cup { {text} : text \in LsTexts }]
  /\ lsKey \in LsKeys
  /\ lsInitialValue \in {0, 1}
  /\ lsPhase = "unmounted"
  /\ storedValue = lsInitialValue
  /\ lsQueue = {}
  /\ lsBatch = <<>>
  /\ lsLast = LsStep("none", 0, FALSE)
  /\ lsFresh = FALSE

\* First render: useState(initialValue); the read effect is scheduled.
LsMount ==
  /\ lsPhase = "unmounted"
  /\ lsPhase' = "effect"
  /\ storedValue' = lsInitialValue
  /\ lsQueue' = {}
  /\ lsBatch' = <<>>
  /\ lsLast' = LsStep("mount", lsInitialValue, FALSE)
  /\ lsFresh' = TRUE
  /\ UNCHANGED <<lsStore, lsKey, lsInitialValue>>
  /\ UNCHANGED lsOthers

\* The read effect: getItem(key), and setStoredValue(JSON.parse(item)) when
\* there is an entry; a throw of getItem or JSON.parse is caught and logged.
LsReadEffect ==
  /\ lsPhase = "effect"
  /\ \E getItemThrows \in BOOLEAN :
       LET item == lsStore[lsKey]
           parsed == IF item = {} THEN {}
                     ELSE JSONparse(CHOOSE text \in item : TRUE)
           threw == getItemThrows \/ (item # {} /\ parsed = {})
       IN /\ lsQueue' = IF getItemThrows \/ parsed = {} THEN lsQueue
                        ELSE parsed
          /\ lsLast' = LsStep("effect", 0, threw)
  /\ lsPhase' = "idle"
  /\ UNCHANGED <<lsStore, lsKey, lsInitialValue, storedValue, lsBatch, lsFresh>>
  /\ UNCHANGED lsOthers

\* React renders again with the queued state; setValue and deleteValue are
\* created anew and see the new storedValue.
LsRender ==
  /\ lsPhase = "idle"
  /\ lsQueue # {}
  /\ storedValue' = CHOOSE v \in lsQueue : TRUE
  /\ lsQueue' = {}
  /\ lsBatch' = <<>>
  /\ UNCHANGED <<lsStore, lsKey, lsInitialValue, lsPhase, lsLast, lsFresh>>
  /\ UNCHANGED lsOthers

\* The component renders with another key argument: queued state is
\* applied, and the read effect runs again because key is its dependency.
LsKeyChange ==
  /\ lsPhase = "idle"
  /\ \E k \in LsKeys \ {lsKey} : lsKey' = k
  /\ storedValue' = IF lsQueue = {} THEN storedValue
                    ELSE CHOOSE v \in lsQueue : TRUE
  /\ lsQueue' = {}
  /\ lsBatch' = <<>>
  /\ lsPhase' = "effect"
  /\ lsLast' = LsStep("keyChange", 0, FALSE)
  /\ lsFresh' = FALSE
  /\ UNCHANGED <<lsStore, lsInitialValue>>
  /\ UNCHANGED lsOthers

\* setValue(value): setStoredValue(valueToStore), then setItem; a throw of
\* setItem is caught and logged.
setValue ==
  /\ lsPhase = "idle"
  /\ Len(lsBatch) < MaxBatch
  /\ \E arg \in SetValueArgs, setItemThrows \in BOOLEAN :
       LET valueToStore == ValueToStore(arg, storedValue)
       IN /\ valueToStore \in LsValues
          /\ lsQueue' = {valueToStore}
          /\ lsStore' = IF setItemThrows THEN lsStore
                        ELSE [lsStore EXCEPT ![lsKey] =
                                {JSONstringify(valueToStore)}]
          /\ lsBatch' = Append(lsBatch, arg)
          /\ lsLast' = LsStep("setValue", valueToStore, setItemThrows)
  /\ lsFresh' = FALSE
  /\ UNCHANGED <<lsKey, lsInitialValue, lsPhase, storedValue>>
  /\ UNCHANGED lsOthers

\* deleteValue(): setStoredValue(initialValue), then removeItem; a throw of
\* removeItem is caught and logged.
deleteValue ==
  /\ lsPhase = "idle"
  /\ Len(lsBatch) < MaxBatch
  /\ \E removeItemThrows \in BOOLEAN :
       /\ lsStore' = IF removeItemThrows THEN lsStore
                     ELSE [lsStore EXCEPT ![lsKey] = {}]
       /\ lsLast' = LsStep("deleteValue", lsInitialValue, removeItemThrows)
  /\ lsQueue' = {lsInitialValue}
  /\ lsBatch' = Append(lsBatch, [op |-> "delete", value |-> 0])
  /\ lsFresh' = FALSE
  /\ UNCHANGED <<lsKey, lsInitialValue, lsPhase, storedValue>>
  /\ UNCHANGED lsOthers

\* The component unmounts; its state is dropped, the entries stay.
LsUnmount ==
  /\ lsPhase # "unmounted"
  /\ lsPhase' = "unmounted"
  /\ lsQueue' = {}
  /\ lsBatch' = <<>>
  /\ lsLast' = LsStep("unmount", 0, FALSE)
  /\ lsFresh' = FALSE
  /\ UNCHANGED <<lsStore, lsKey, lsInitialValue, storedValue>>
  /\ UNCHANGED lsOthers

LsNext ==
  \/ LsMount
  \/ LsReadEffect
  \/ LsRender
  \/ LsKeyChange
  \/ setValue
  \/ deleteValue
  \/ LsUnmount

\* --------------------------- react-hooks: use-fetch, renders and time
\* The configurations, with the transform option: none, a function whose
\* identity is the same on every render, or one written inline in the
\* component, which is a new function on every render.
RvConfigs ==
  [url : {"", "/api/users"},
   immediate : BOOLEAN,
   revalidateInterval : {0, DefaultRevalidateInterval},
   once : BOOLEAN,
   transform : {"none", "stable", "inline"}]

\* The clock advances in steps of half the default interval.
TickMs == DefaultRevalidateInterval \div 2

RvStart ==
  /\ rvPhase = "unmounted"
  /\ rvNow = 0
  /\ rvHasFetched = FALSE
  /\ rvLoading = FALSE
  /\ rvError = FALSE
  /\ rvRequests = <<>>
  /\ rvTimers = {}
  /\ rvEffectTimer = {}
  /\ rvTimerSeq = 0
  /\ rvRenderPending = FALSE

RvInit ==
  /\ rvCfg \in RvConfigs
  /\ RvStart

\* Whether a call of execute() gets past its two early returns.
Executes(fetched) == ~(rvCfg.url = "" \/ (rvCfg.once /\ fetched))

\* The synchronous part of execute() at the present time: setLoading(true),
\* setError(null) and the fetch call.  A setter called with the value the
\* state already has schedules no render.
StartRequest(origin, rendering) ==
  /\ rvRequests' = Append(rvRequests,
       [start |-> rvNow, origin |-> origin, state |-> "pending"])
  /\ rvLoading' = TRUE
  /\ rvError' = FALSE
  /\ rvRenderPending' = (rendering \/ ~rvLoading \/ rvError)

ExecuteNow(fetched, origin) ==
  IF Executes(fetched)
  THEN StartRequest(origin, rvRenderPending)
  ELSE UNCHANGED <<rvRequests, rvLoading, rvError, rvRenderPending>>

\* The same, called by an effect of the render that has just been done.
ExecuteAfterRender(fetched, origin) ==
  IF Executes(fetched)
  THEN StartRequest(origin, FALSE)
  ELSE /\ rvRenderPending' = FALSE
       /\ UNCHANGED <<rvRequests, rvLoading, rvError>>

\* The revalidation effect: the cleanup of its previous run clears the
\* timer that run created, then setInterval arms a new one unless
\* revalidateInterval is falsy or once is set.
RevalidationEffect ==
  LET kept == { t \in rvTimers : t.id \notin rvEffectTimer }
  IN IF ArmsInterval(rvCfg)
     THEN /\ rvTimerSeq' = rvTimerSeq + 1
          /\ rvEffectTimer' = {rvTimerSeq + 1}
          /\ rvTimers' = kept \cup
               {[id |-> rvTimerSeq + 1, due |-> rvNow + rvCfg.revalidateInterval]}
     ELSE /\ rvTimers' = kept
          /\ rvEffectTimer' = {}
          /\ UNCHANGED rvTimerSeq

\* The component mounts: the three effects run in source order.
RvMount ==
  /\ rvPhase = "unmounted"
  /\ rvPhase' = "mounted"
  /\ rvHasFetched' = FALSE
  /\ IF rvCfg.immediate
     THEN ExecuteNow(FALSE, "mount")
     ELSE UNCHANGED <<rvRequests, rvLoading, rvError, rvRenderPending>>
  /\ RevalidationEffect
  /\ UNCHANGED <<rvCfg, rvNow>>
  /\ UNCHANGED rvOthers

\* React renders the component after a state change.  With an inline
\* transform, execute is a new function (useCallback deps [url, transform,
\* once]), so the effects that depend on execute run again.
RvRender ==
  /\ rvPhase = "mounted"
  /\ rvRenderPending
  /\ IF rvCfg.transform = "inline"
     THEN /\ (rvCfg.immediate /\ Executes(rvHasFetched)) =>
               Len(rvRequests) < MaxRvRequests
          /\ IF rvCfg.immediate /\ Executes(rvHasFetched)
             THEN ExecuteAfterRender(rvHasFetched, "render")
             ELSE /\ rvRenderPending' = FALSE
                  /\ UNCHANGED <<rvRequests, rvLoading, rvError>>
          /\ RevalidationEffect
     ELSE /\ rvRenderPending' = FALSE
          /\ UNCHANGED <<rvRequests, rvLoading, rvError, rvTimers,
                         rvEffectTimer, rvTimerSeq>>
  /\ UNCHANGED <<rvCfg, rvPhase, rvNow, rvHasFetched>>
  /\ UNCHANGED rvOthers

\* A timer is due: its callback calls execute(), and setInterval schedules
\* the next call one interval later.
RvTimerFire ==
  /\ \E t \in rvTimers :
       /\ t.due <= rvNow
       /\ rvTimers' = (rvTimers \ {t}) \cup
            {[t EXCEPT !.due = t.due + rvCfg.revalidateInterval]}
  /\ Executes(rvHasFetched) => Len(rvRequests) < MaxRvRequests
  /\ ExecuteNow(rvHasFetched, "timer")
  /\ UNCHANGED <<rvCfg, rvPhase, rvNow, rvHasFetched, rvEffectTimer, rvTimerSeq>>
  /\ UNCHANGED rvOthers

\* The fetch of request i settles some time after its start: setData or
\* setError, then setLoading(false).  State setters of a component that is
\* gone do nothing; the ref is written all the same.
RvSettle(i, kind) ==
  /\ i \in 1..Len(rvRequests)
  /\ rvRequests[i].state = "pending"
  /\ rvRequests[i].start < rvNow
  /\ rvRequests' = [rvRequests EXCEPT ![i].state = kind]
  /\ rvHasFetched' = IF kind = "ok" THEN TRUE ELSE rvHasFetched
  /\ IF rvPhase = "mounted"
     THEN /\ rvError' = IF kind = "ok" THEN rvError ELSE TRUE
          /\ rvLoading' = FALSE
          /\ rvRenderPending' = TRUE
     ELSE UNCHANGED <<rvLoading, rvError, rvRenderPending>>
  /\ UNCHANGED <<rvCfg, rvPhase, rvNow, rvTimers, rvEffectTimer, rvTimerSeq>>
  /\ UNCHANGED rvOthers

\* Time passes after the mount.  The event loop has run what was due: no
\* timer is overdue and no render is outstanding.
RvTick ==
  /\ rvPhase # "unmounted"
  /\ rvNow < MaxRvTicks * TickMs
  /\ \A t \in rvTimers : t.due > rvNow
  /\ ~(rvPhase = "mounted" /\ rvRenderPending)
  /\ rvNow' = rvNow + TickMs
  /\ UNCHANGED <<rvCfg, rvPhase, rvHasFetched, rvLoading, rvError, rvRequests,
                 rvTimers, rvEffectTimer, rvTimerSeq, rvRenderPending>>
  /\ UNCHANGED rvOthers

\* The component unmounts: the cleanup of the revalidation effect runs.
RvUnmount ==
  /\ rvPhase = "mounted"
  /\ rvPhase' = "gone"
  /\ rvTimers' = { t \in rvTimers : t.id \notin rvEffectTimer }
  /\ rvEffectTimer' = {}
  /\ UNCHANGED <<rvCfg, rvNow, rvHasFetched, rvLoading, rvError, rvRequests,
                 rvTimerSeq, rvRenderPending>>
  /\ UNCHANGED rvOthers

RvNext ==
  \/ RvMount
  \/ RvRender
  \/ RvTimerFire
  \/ \E i \in 1..MaxRvRequests, kind \in {"ok", "failed"} : RvSettle(i, kind)
  \/ RvTick
  \/ RvUnmount

\* ------------------------------------------- simple-sslcommerz: logging
\* String.prototype.includes.
Includes(s, sub) ==
  \E i \in 1..(Len(s) - Len(sub) + 1) : SubSeq(s, i, i + Len(sub) - 1) = sub

\* The configurations of the logging model.
LogConfigs ==
  [store_id : {"store1"}, store_passwd : Passwords,
   is_live : BOOLEAN, debug : BOOLEAN]

\* this.baseUrl as the constructor sets it.
BaseUrl(config) ==
  IF config.is_live THEN "https://securepay.sslcommerz.com"
  ELSE "https://sandbox.sslcommerz.com"

\* A property of the object passed to the logger: no pair when the value is
\* undefined.
Field(obj, name) == IF Has(obj, name) THEN << <<name, obj[name]>> >> ELSE <<>>

\* One call of a Logger method with its message and the properties of its
\* data object; debug() prints only in debug mode, the others always.
LogCall(level, message, fields) ==
  [level |-> level, message |-> message, fields |-> fields,
   printed |-> (level # "debug" \/ logUtil.debug)]

\* Number.prototype.toFixed(2) of a whole number.
ToFixed2(n) == NatToString(n) \o ".00"

\* The URL a refund request is sent to, as refundUrl.toString() gives it.
RefundUrl(refundData) ==
  BaseUrl(logUtil) \o "/validator/api/merchantTransIDvalidationAPI.php?"
    \o FormSerialize(
         << <<"bank_tran_id", refundData.bank_tran_id>>,
            <<"refund_amount", ToFixed2(refundData.refund_amount)>>,
            <<"refund_remarks", "Customer requested refund">>,
            <<"store_id", logUtil.store_id>>,
            <<"store_passwd", logUtil.store_passwd>>,
            <<"format", "json">>,
            <<"v", "1">> >>)

\* The URL of a refund status request, as statusUrl.toString() gives it.
StatusUrl(refund_ref_id) ==
  BaseUrl(logUtil) \o "/validator/api/merchantTransIDvalidationAPI.php?"
    \o FormSerialize(
         << <<"refund_ref_id", refund_ref_id>>,
            <<"store_id", logUtil.store_id>>,
            <<"store_passwd", logUtil.store_passwd>>,
            <<"format", "json">> >>)

\* The arguments of the logging model: payment data that passes validation
\* and payment data that does not, and the same for refunds.
LogPaymentInputs ==
  { [total_amount |-> 1000, tran_id |-> "TXN1", cus_name |-> "John Doe",
     cus_email |-> "john@example.com", cus_phone |-> "01700000000"],
    [tran_id |-> "TXN1", cus_name |-> "John Doe"] }

LogRefundInputs ==
  { [refund_amount |-> 500, bank_tran_id |-> "BANK1"],
    [bank_tran_id |-> "BANK1"] }

\* The status property of a parsed response body.
ResultFields(body) ==
  IF HasValId(body) THEN << <<"status", "VALID">> >>
  ELSE << <<"status", "FAILED">> >>

LogInit ==
  /\ logUtil \in LogConfigs
  /\ logEntries = <<>>
  /\ logPending = <<>>
  /\ logCalls = 0

\* A method call starts: it logs, and then throws or awaits its fetch.
LogStarts(method, arg, logged, awaits) ==
  /\ logPending = <<>>
  /\ logCalls < MaxLogCalls
  /\ logCalls' = logCalls + 1
  /\ logEntries' = logEntries \o logged
  /\ logPending' = IF awaits THEN <<[method |-> method, arg |-> arg]>> ELSE <<>>
  /\ UNCHANGED logUtil
  /\ UNCHANGED logOthers

\* initPayment(paymentData) up to its await fetch(...).
LogInitPayment ==
  \E paymentData \in LogPaymentInputs :
    LogStarts("initPayment", paymentData.tran_id,
      <<LogCall("info", "Initiating payment", Field(paymentData, "tran_id"))>>,
      Len(validatePaymentData(paymentData)) = 0)

\* validatePayment(val_id) up to its await fetch(...).
LogValidatePayment ==
  \E val_id \in IdInputs :
    LogStarts("validatePayment", val_id,
      <<LogCall("info", "Validating payment", << <<"val_id", val_id>> >>)>>,
      TrimSpaces(val_id) # "")

\* initiateRefund(refundData) up to its await fetch(...).
LogInitiateRefund ==
  \E refundData \in LogRefundInputs :
    LET valid == Len(validateRefundData(refundData)) = 0
        amount == IF Has(refundData, "refund_amount")
                  THEN << <<"amount", NatToString(refundData.refund_amount)>> >>
                  ELSE <<>>
    IN LogStarts("initiateRefund", refundData.bank_tran_id,
         <<LogCall("info", "Initiating refund",
                   Field(refundData, "bank_tran_id") \o amount)>>
           \o (IF valid
               THEN <<LogCall("debug", "Refund API URL",
                              << <<"url", RefundUrl(refundData)>> >>)>>
               ELSE <<>>),
         valid)

\* checkRefundStatus(refund_ref_id) up to its await fetch(...).
LogCheckRefundStatus ==
  \E refund_ref_id \in IdInputs :
    LET given == TrimSpaces(refund_ref_id) # ""
    IN LogStarts("checkRefundStatus", refund_ref_id,
         <<LogCall("info", "Checking refund status",
                   << <<"refund_ref_id", refund_ref_id>> >>)>>
           \o (IF given
               THEN <<LogCall("debug", "Refund status check URL",
                              << <<"url", StatusUrl(refund_ref_id)>> >>)>>
               ELSE <<>>),
         given)

\* The name under which a method logs its argument.
ArgName(method) ==
  CASE method = "initPayment" -> "tran_id"
    [] method = "validatePayment" -> "val_id"
    [] method = "initiateRefund" -> "bank_tran_id"
    [] method = "checkRefundStatus" -> "refund_ref_id"

\* The messages of a method: its response dump, its success and its failure.
ResponseMessage(method) ==
  CASE method = "initPayment" -> "SSLCommerz API Response"
    [] method = "validatePayment" -> ""
    [] method = "initiateRefund" -> "SSLCommerz Refund API Response"
    [] method = "checkRefundStatus" -> "SSLCommerz Refund Status API Response"

SuccessMessage(method) ==
  CASE method = "initPayment" -> "Payment initiated"
    [] method = "validatePayment" -> "Payment validated"
    [] method = "initiateRefund" -> "Refund processed"
    [] method = "checkRefundStatus" -> "Refund status checked"

FailureMessage(method) ==
  CASE method = "initPayment" -> "Payment initiation failed"
    [] method = "validatePayment" -> "Payment validation failed"
    [] method = "initiateRefund" -> "Refund initiation failed"
    [] method = "checkRefundStatus" -> "Refund status check failed"

\* Whether the method dumps the response it got: validatePayment never
\* does, checkRefundStatus only after its response.ok test.
DumpsResponse(method, reply) ==
  /\ reply.kind = "response"
  /\ method # "validatePayment"
  /\ method = "checkRefundStatus" => reply.ok

\* What a pending call logs from the end of its await fetch(...).
LoggedAfterFetch(call, reply, duration) ==
  LET thrown == IF call.method = "validatePayment" THEN ThrownByValidate(reply)
                ELSE ThrownByTextAndParse(reply)
      arg == << <<ArgName(call.method), call.arg>> >>
  IN (IF DumpsResponse(call.method, reply)
      THEN <<LogCall("debug", ResponseMessage(call.method),
                     << <<"status", NatToString(reply.status)>>,
                        <<"responseText", reply.body>> >>)>>
      ELSE <<>>)
     \o (IF thrown = <<>>
         THEN <<LogCall("info", SuccessMessage(call.method),
                        arg \o ResultFields(reply.body)
                          \o << <<"duration", NatToString(duration) \o "ms">> >>)>>
         ELSE <<LogCall("error", FailureMessage(call.method),
                        arg \o << <<"error", thrown[1].message>> >>)>>)

\* The fetch of the pending call ends.
LogFetchEnds ==
  /\ logPending # <<>>
  /\ \E reply \in FetchReplies, duration \in {0, 250} :
       logEntries' = logEntries \o LoggedAfterFetch(logPending[1], reply, duration)
  /\ logPending' = <<>>
  /\ UNCHANGED <<logUtil, logCalls>>
  /\ UNCHANGED logOthers

LogNext ==
  \/ LogInitPayment
  \/ LogValidatePayment
  \/ LogInitiateRefund
  \/ LogCheckRefundStatus
  \/ LogFetchEnds

\* ---------------------------------------- react-hooks: use-user-activity
\* The idleTimeout values of the model, in clock ticks.
IdleTimeouts == 1 .. MaxIdleTicks

\* A count of clock ticks that stops at one more than the longest timeout.
Later(n) == IF n > MaxIdleTicks THEN n ELSE n + 1

\* The hook before its first effect: useState(true), useState(false),
\* useState(Date.now()), useRef(null).
UaStart ==
  /\ uaPhase = "unmounted"
  /\ isIdle = FALSE
  /\ isVisible = TRUE
  /\ lastActiveAge = 0
  /\ uaTimers = {}
  /\ timeoutRef = {}
  /\ uaQuiet = 0
  /\ uaLast = "none"

UaInit ==
  /\ uaTimeout \in IdleTimeouts
  /\ uaHidden \in BOOLEAN
  /\ uaFocused \in BOOLEAN
  /\ UaStart

\* clearTimeout(timeoutRef.current) when the ref is set: the timers left.
ClearTimeout(timers, ref) == { t \in timers : t.id \notin ref }

\* The id setTimeout returns: one that no pending timer has and that differs
\* from the one the ref holds.
NewTimerId(timers, ref) ==
  CHOOSE id \in 1..(Cardinality(timers) + 2) :
    id \notin ref /\ \A t \in timers : t.id # id

\* A resetIdleTimer() that leaves the previous timer pending.
resetIdleTimer_NoClear(timers, ref, timeout) ==
  LET id == NewTimerId(timers, ref)
  IN << timers \cup {[id |-> id, remaining |-> timeout]}, {id} >>

\* resetIdleTimer() on the given timers and ref: <<timers, ref>> after it.
resetIdleTimer(timers, ref, timeout) ==
  LET left == ClearTimeout(timers, ref)
      id == NewTimerId(left, ref)
  IN << left \cup {[id |-> id, remaining |-> timeout]}, {id} >>

\* markActivity(): setLastActiveAt(Date.now()), setIsIdle(false),
\* resetIdleTimer().
markActivity ==
  LET after == resetIdleTimer(uaTimers, timeoutRef, uaTimeout)
  IN /\ lastActiveAge' = 0
     /\ isIdle' = FALSE
     /\ uaTimers' = after[1]
     /\ timeoutRef' = after[2]

\* updateVisibility() when the document is hidden / has focus as given.
updateVisibility(hidden, focused) ==
  LET visible == ~hidden /\ focused
  IN /\ isVisible' = visible
     /\ IF visible THEN markActivity
        ELSE UNCHANGED <<lastActiveAge, isIdle, uaTimers, timeoutRef>>

\* The effect body after the listeners are attached: updateVisibility(),
\* then resetIdleTimer().
UaEffect(timers, ref) ==
  LET visible == ~uaHidden /\ uaFocused
      first == IF visible THEN resetIdleTimer(timers, ref, uaTimeout')
               ELSE <<timers, ref>>
      second == resetIdleTimer(first[1], first[2], uaTimeout')
  IN /\ isVisible' = visible
     /\ lastActiveAge' = IF visible THEN 0 ELSE lastActiveAge
     /\ isIdle' = IF visible THEN FALSE ELSE isIdle
     /\ uaTimers' = second[1]
     /\ timeoutRef' = second[2]

\* The component mounts and its effect runs.
UaMount ==
  /\ uaPhase = "unmounted"
  /\ uaPhase' = "mounted"
  /\ UNCHANGED <<uaTimeout, uaHidden, uaFocused>>
  /\ UaEffect(uaTimers, timeoutRef)
  /\ uaQuiet' = 0
  /\ uaLast' = "mount"
  /\ UNCHANGED uaOthers

\* The component renders with another idleTimeout: the cleanup of the
\* effect clears the timer and the effect runs again.
UaOptionChange ==
  /\ uaPhase = "mounted"
  /\ \E t \in IdleTimeouts \ {uaTimeout} : uaTimeout' = t
  /\ UaEffect(ClearTimeout(uaTimers, timeoutRef), timeoutRef)
  /\ uaLast' = "option"
  /\ UNCHANGED <<uaPhase, uaHidden, uaFocused, uaQuiet>>
  /\ UNCHANGED uaOthers

\* A mousemove, keydown, mousedown or touchstart event on the window.
UaActivity ==
  /\ uaPhase = "mounted"
  /\ markActivity
  /\ uaQuiet' = 0
  /\ uaLast' = "activity"
  /\ UNCHANGED <<uaPhase, uaTimeout, isVisible, uaHidden, uaFocused>>
  /\ UNCHANGED uaOthers

\* visibilitychange on the document, focus or blur on the window: the
\* document's state changes and updateVisibility() runs.
UaVisibility ==
  /\ uaPhase = "mounted"
  /\ \E hidden \in BOOLEAN, focused \in BOOLEAN :
       /\ <<hidden, focused>> # <<uaHidden, uaFocused>>
       /\ uaHidden' = hidden
       /\ uaFocused' = focused
       /\ updateVisibility(hidden, focused)
       /\ uaQuiet' = IF ~hidden /\ focused THEN 0 ELSE uaQuiet
       /\ uaLast' = IF ~hidden /\ focused THEN "activity" ELSE "away"
  /\ UNCHANGED <<uaPhase, uaTimeout>>
  /\ UNCHANGED uaOthers

\* A timer has run out: its callback calls setIsIdle(true).  The setter of
\* a component that is gone does nothing.
UaTimerFire ==
  /\ \E t \in uaTimers :
       /\ t.remaining = 0
       /\ uaTimers' = uaTimers \ {t}
  /\ isIdle' = IF uaPhase = "mounted" THEN TRUE ELSE isIdle
  /\ uaLast' = "timer"
  /\ UNCHANGED <<uaPhase, uaTimeout, isVisible, lastActiveAge, uaHidden,
                 uaFocused, timeoutRef, uaQuiet>>
  /\ UNCHANGED uaOthers

\* One clock tick passes; a timer that has run out fires before the next.
UaTick ==
  /\ \A t \in uaTimers : t.remaining > 0
  /\ uaTimers' = { [t EXCEPT !.remaining = t.remaining - 1] : t \in uaTimers }
  /\ uaQuiet' = Later(uaQuiet)
  /\ lastActiveAge' = Later(lastActiveAge)
  /\ uaLast' = "tick"
  /\ UNCHANGED <<uaPhase, uaTimeout, isIdle, isVisible, uaHidden, uaFocused,
                 timeoutRef>>
  /\ UNCHANGED uaOthers

\* The component unmounts: the cleanup removes the listeners and clears the
\* timer the ref holds.
UaUnmount ==
  /\ uaPhase = "mounted"
  /\ uaPhase' = "gone"
  /\ uaTimers' = ClearTimeout(uaTimers, timeoutRef)
  /\ uaLast' = "unmount"
  /\ UNCHANGED <<uaTimeout, isIdle, isVisible, lastActiveAge, uaHidden,
                 uaFocused, timeoutRef, uaQuiet>>
  /\ UNCHANGED uaOthers

UaNext ==
  \/ UaMount
  \/ UaOptionChange
  \/ UaActivity
  \/ UaVisibility
  \/ UaTimerFire
  \/ UaTick
  \/ UaUnmount

\* -------------------------------------------- react-hooks: use-geolocation
\* Whether navigator.geolocation exists, and the immediate option.
GeoEnvs == [geolocation : BOOLEAN, immediate : BOOLEAN]

\* What a position callback delivers: a position or one of the error codes.
GeoResults ==
  [kind : {"position"}, value : {"p1", "p2"}]
    \cup [kind : {"error"},
          value : {"User denied the request for Geolocation",
                   "The request to get user location timed out"}]

\* The useState and useRef initial values.
GeoStart ==
  /\ geoPhase = "unmounted"
  /\ isClient = FALSE
  /\ supported = FALSE
  /\ coordinates = Null
  /\ geoLoading = FALSE
  /\ geoError = Null
  /\ watching = FALSE
  /\ watchIdRef = {}
  /\ geoWatchers = {}
  /\ geoRequests = <<>>
  /\ geoLast = [op |-> "none", had |-> FALSE]

GeoInit ==
  /\ geoEnv \in GeoEnvs
  /\ GeoStart

GeoStep(op) == [op |-> op, had |-> watchIdRef # {}]

\* handleSuccess / handleError with the delivered result; the setters of a
\* component that is gone do nothing.
HandleResult(result) ==
  IF geoPhase = "gone"
  THEN UNCHANGED <<coordinates, geoLoading, geoError>>
  ELSE IF result.kind = "position"
  THEN /\ coordinates' = result.value
       /\ geoLoading' = FALSE
       /\ geoError' = Null
  ELSE /\ geoError' = result.value
       /\ geoLoading' = FALSE
       /\ UNCHANGED coordinates

\* getPosition() as created by a render that saw client and can.
getPosition(client, can) ==
  IF ~client \/ ~can
  THEN /\ geoError' = "Geolocation is not supported by this browser"
       /\ UNCHANGED <<geoLoading, geoRequests>>
  ELSE /\ geoLoading' = TRUE
       /\ geoError' = Null
       /\ geoRequests' = Append(geoRequests, "pending")

\* Whether watch() gets past its early return.
CanWatch_AnyRef(ref) == isClient /\ supported
CanWatch(ref) == isClient /\ supported /\ ref = {}

\* The id watchPosition returns.
NewWatchId == CHOOSE id \in 1..(Cardinality(geoWatchers) + 1) : id \notin geoWatchers

\* The first render and its effects: setIsClient(true) and setSupported are
\* queued; the callbacks of this render still see isClient = false.
GeoMount ==
  /\ geoPhase = "unmounted"
  /\ geoPhase' = "hydrating"
  /\ geoLast' = GeoStep("mount")
  /\ UNCHANGED <<geoEnv, isClient, supported, coordinates, geoLoading, geoError,
                 watching, watchIdRef, geoWatchers, geoRequests>>
  /\ UNCHANGED geoOthers

\* The second render: isClient is true, the [isClient] effect runs its
\* cleanup stopWatching() and then getPosition() unless immediate is false.
GeoHydrate ==
  /\ geoPhase = "hydrating"
  /\ geoPhase' = "ready"
  /\ isClient' = TRUE
  /\ supported' = geoEnv.geolocation
  /\ geoWatchers' = geoWatchers \ watchIdRef
  /\ watchIdRef' = {}
  /\ watching' = FALSE
  /\ IF geoEnv.immediate
     THEN getPosition(TRUE, geoEnv.geolocation)
     ELSE UNCHANGED <<geoLoading, geoError, geoRequests>>
  /\ geoLast' = GeoStep("hydrate")
  /\ UNCHANGED <<geoEnv, coordinates>>
  /\ UNCHANGED geoOthers

Mounted == geoPhase \in {"hydrating", "ready"}

\* watch(), called by the component.
watch ==
  /\ Mounted
  /\ IF CanWatch(watchIdRef)
     THEN /\ watchIdRef' = {NewWatchId}
          /\ geoWatchers' = geoWatchers \cup {NewWatchId}
          /\ watching' = TRUE
     ELSE UNCHANGED <<watchIdRef, geoWatchers, watching>>
  /\ geoLast' = GeoStep("watch")
  /\ UNCHANGED <<geoEnv, geoPhase, isClient, supported, coordinates, geoLoading,
                 geoError, geoRequests>>
  /\ UNCHANGED geoOthers

\* stopWatching(), called by the component.
stopWatching ==
  /\ Mounted
  /\ geoWatchers' = geoWatchers \ watchIdRef
  /\ watchIdRef' = {}
  /\ watching' = FALSE
  /\ geoLast' = GeoStep("stopWatching")
  /\ UNCHANGED <<geoEnv, geoPhase, isClient, supported, coordinates, geoLoading,
                 geoError, geoRequests>>
  /\ UNCHANGED geoOthers

\* refresh(), called by the component: stopWatching(), then getPosition().
refresh ==
  /\ Mounted
  /\ (isClient /\ supported) => Len(geoRequests) < MaxGeoRequests
  /\ geoWatchers' = geoWatchers \ watchIdRef
  /\ watchIdRef' = {}
  /\ watching' = FALSE
  /\ getPosition(isClient, supported)
  /\ geoLast' = GeoStep("refresh")
  /\ UNCHANGED <<geoEnv, geoPhase, isClient, supported, coordinates>>
  /\ UNCHANGED geoOthers

\* The browser answers getCurrentPosition request i.
GeoAnswer(i, result) ==
  /\ i \in 1..Len(geoRequests)
  /\ geoRequests[i] = "pending"
  /\ geoRequests' = [geoRequests EXCEPT ![i] = "answered"]
  /\ HandleResult(result)
  /\ geoLast' = GeoStep("answer")
  /\ UNCHANGED <<geoEnv, geoPhase, isClient, supported, watching, watchIdRef,
                 geoWatchers>>
  /\ UNCHANGED geoOthers

\* A registered watcher delivers a position or an error.
GeoWatcherDelivers(result) ==
  /\ geoWatchers # {}
  /\ HandleResult(result)
  /\ geoLast' = GeoStep("delivery")
  /\ UNCHANGED <<geoEnv, geoPhase, isClient, supported, watching, watchIdRef,
                 geoWatchers, geoRequests>>
  /\ UNCHANGED geoOthers

\* The component unmounts: the cleanup of the [isClient] effect is
\* stopWatching(); setWatching does nothing any more.
GeoUnmount ==
  /\ Mounted
  /\ geoPhase' = "gone"
  /\ geoWatchers' = geoWatchers \ watchIdRef
  /\ watchIdRef' = {}
  /\ geoLast' = GeoStep("unmount")
  /\ UNCHANGED <<geoEnv, isClient, supported, coordinates, geoLoading, geoError,
                 watching, geoRequests>>
  /\ UNCHANGED geoOthers

GeoNext ==
  \/ GeoMount
  \/ GeoHydrate
  \/ watch
  \/ stopWatching
  \/ refresh
  \/ \E i \in 1..MaxGeoRequests, result \in GeoResults : GeoAnswer(i, result)
  \/ \E result \in GeoResults : GeoWatcherDelivers(result)
  \/ GeoUnmount

\* ----------------------------------------- react-hooks: use-network-status
NetEnvs == {"browser", "server"}

NetStart ==
  /\ netPhase = "unrendered"
  /\ isConnected = {}
  /\ netListeners = {}
  /\ netEvents = <<>>

NetInit ==
  /\ netEnv \in NetEnvs
  /\ navigatorOnLine \in BOOLEAN
  /\ NetStart

\* Reading navigator.onLine: the value, or no value where the identifier
\* navigator is not defined (a ReferenceError).
ReadOnLine(env, onLine) == IF env = "browser" THEN {onLine} ELSE {}

\* The first render: useState(navigator.onLine).
NetRender ==
  /\ netPhase = "unrendered"
  /\ IF ReadOnLine(netEnv, navigatorOnLine) = {}
     THEN /\ netPhase' = "threw"
          /\ UNCHANGED isConnected
     ELSE /\ netPhase' = "rendered"
          /\ isConnected' = ReadOnLine(netEnv, navigatorOnLine)
  /\ UNCHANGED <<netEnv, navigatorOnLine, netListeners, netEvents>>
  /\ UNCHANGED netOthers

\* The effect after the first render: both listeners are added.
NetSubscribe ==
  /\ netPhase = "rendered"
  /\ netPhase' = "subscribed"
  /\ netListeners' = {"online", "offline"}
  /\ UNCHANGED <<netEnv, navigatorOnLine, isConnected, netEvents>>
  /\ UNCHANGED netOthers

\* The window dispatches 'online' or 'offline': handleConnect or
\* handleDisconnect runs when it is registered.
NetEvent(type) ==
  /\ netEnv = "browser"
  /\ netPhase # "unrendered" => Len(netEvents) < MaxNetEvents
  /\ navigatorOnLine' = (type = "online")
  /\ netEvents' = IF netPhase = "unrendered"
                  THEN netEvents
                  ELSE Append(netEvents, [type |-> type, heard |-> type \in netListeners])
  /\ isConnected' = IF type \in netListeners THEN {type = "online"} ELSE isConnected
  /\ UNCHANGED <<netEnv, netPhase, netListeners>>
  /\ UNCHANGED netOthers

\* The component unmounts: the cleanup removes both listeners.
NetUnmount ==
  /\ netPhase \in {"rendered", "subscribed"}
  /\ netPhase' = "gone"
  /\ netListeners' = netListeners \ {"online", "offline"}
  /\ UNCHANGED <<netEnv, navigatorOnLine, isConnected, netEvents>>
  /\ UNCHANGED netOthers

NetNext ==
  \/ NetRender
  \/ NetSubscribe
  \/ \E type \in {"online", "offline"} : NetEvent(type)
  \/ NetUnmount

\* ------------------------------------------------- simple-cf-video-utils
\* An object without properties.
NoProperties == [name \in {} |-> ""]

\* The IframeConfig arguments: the two of the example, one without player
\* options, and one with false, empty and space-holding options.
VidConfigs ==
  { [customer_domain |-> "c.example.com"],
    [customer_domain |-> "c.example.com", width |-> 1280, height |-> 720,
     autoplay |-> TRUE, muted |-> TRUE, controls |-> TRUE],
    [customer_domain |-> "c.example.com", width |-> 800, height |-> 450,
     autoplay |-> FALSE, controls |-> TRUE, loop |-> TRUE,
     primaryColor |-> "#ff6600", letterboxColor |-> "transparent"],
    [customer_domain |-> "c.example.com", allowFullscreen |-> FALSE,
     muted |-> FALSE, preload |-> FALSE, primaryColor |-> "",
     letterboxColor |-> "light blue", defaultTextTrack |-> "en"] }

\* The restrictions argument: omitted ({}), or an object.
VidRestrictions == { {}, {[exp |-> 5000, downloadable |-> FALSE]} }

\* Date.now() while the calls are made, in milliseconds.
VidNows == {1999, 2000}

\* What the token request ends with: fetch rejects, or a response whose
\* body is not JSON, is null, or is an object.
VidReplies ==
  { [kind |-> "rejected", ok |-> FALSE, status |-> 0, json |-> FALSE,
     isNull |-> FALSE, data |-> NoProperties],
    [kind |-> "response", ok |-> FALSE, status |-> 403, json |-> TRUE,
     isNull |-> FALSE, data |-> [result |-> [token |-> "tokA"]]],
    [kind |-> "response", ok |-> TRUE, status |-> 200, json |-> FALSE,
     isNull |-> FALSE, data |-> NoProperties],
    [kind |-> "response", ok |-> TRUE, status |-> 200, json |-> TRUE,
     isNull |-> TRUE, data |-> NoProperties] }
    \cup { [kind |-> "response", ok |-> TRUE, status |-> 200, json |-> TRUE,
            isNull |-> FALSE, data |-> d] :
             d \in { NoProperties, [result |-> NoProperties],
                     [result |-> [token |-> ""]],
                     [result |-> [token |-> "tokA"]],
                     [result |-> [token |-> "tokB"]] } }

VidInit ==
  /\ vidArgs \in [config : VidConfigs, restrictions : VidRestrictions]
  /\ vidNow \in VidNows
  /\ vidCalls = <<>>

\* Boolean.prototype.toString.
BooleanToString(b) == IF b THEN "true" ELSE "false"

\* JSON.stringify of a SignedUrlRestrictions object.
StringifyRestrictions(r) ==
  "{" \o Join((IF Has(r, "exp") THEN << "\"exp\":" \o NatToString(r.exp) >> ELSE <<>>)
              \o (IF Has(r, "downloadable")
                  THEN << "\"downloadable\":" \o BooleanToString(r.downloadable) >>
                  ELSE <<>>), ",") \o "}"

\* restrictions || { exp: Math.floor(Date.now() / 1000) + 3600 }.
defaultRestrictions(restrictions, now) ==
  IF restrictions = {} THEN [exp |-> (now \div 1000) + 3600]
  ELSE CHOOSE r \in restrictions : TRUE

\* The fetch of getRestrictedVideoToken.
TokenRequest(account_id, api_token, video_uid, restrictions, now) ==
  [url |-> "https://api.cloudflare.com/client/v4/accounts/" \o account_id
             \o "/stream/" \o video_uid \o "/token",
   method |-> "POST",
   authorization |-> "Bearer " \o api_token,
   body |-> StringifyRestrictions(defaultRestrictions(restrictions, now))]

\* The rest of getRestrictedVideoToken: {} where it returns data, else
\* {message} of what it throws.
TokenThrows(reply) ==
  IF reply.kind = "rejected" THEN {"fetch failed"}
  ELSE IF ~reply.ok
  THEN {"Failed to get CF video token: " \o NatToString(reply.status)}
  ELSE IF ~reply.json THEN {"Unexpected token in JSON"}
  ELSE {}

\* if (config[name] !== undefined) params.set(name, config[name].toString()).
BoolParam_Truthy(params, config, name) ==
  IF Has(config, name) /\ config[name]
  THEN ParamsSet(params, name, BooleanToString(config[name]))
  ELSE params
BoolParam(params, config, name) ==
  IF Has(config, name)
  THEN ParamsSet(params, name, BooleanToString(config[name]))
  ELSE params

\* if (config[name]) params.set(name, config[name]).
StringParam(params, config, name) ==
  IF Has(config, name) /\ config[name] # ""
  THEN ParamsSet(params, name, config[name])
  ELSE params

\* The URLSearchParams of the player configuration.
PlayerParams(config) ==
  StringParam(
    StringParam(
      StringParam(
        BoolParam(
          BoolParam(
            BoolParam(
              BoolParam(
                BoolParam(<<>>, config, "autoplay"),
                config, "muted"),
              config, "controls"),
            config, "loop"),
          config, "preload"),
        config, "primaryColor"),
      config, "letterboxColor"),
    config, "defaultTextTrack")

\* config[name] || fallback, of a number.
NumberOr(config, name, fallback) ==
  IF Has(config, name) /\ config[name] # 0 THEN config[name] ELSE fallback

\* What getRestrictedVideoIframeUrl returns for a token.
IframeResult(config, token) ==
  LET queryString == FormSerialize(PlayerParams(config))
      baseUrl == "https://" \o config.customer_domain \o "/" \o token \o "/iframe"
      fullUrl == IF queryString # "" THEN baseUrl \o "?" \o queryString ELSE baseUrl
  IN [url |-> fullUrl,
      token |-> token,
      iframe |-> [src |-> fullUrl,
                  width |-> NumberOr(config, "width", 1280),
                  height |-> NumberOr(config, "height", 720),
                  allowFullscreen |-> ~(Has(config, "allowFullscreen")
                                          /\ config.allowFullscreen = FALSE),
                  style |-> "border: none;",
                  allow |-> "accelerometer; gyroscope; autoplay; encrypted-media; picture-in-picture;"]]

\* The rest of getRestrictedVideoIframeUrl after the token request: {} where
\* it returns, else {message} of what it throws.
IframeThrows(reply) ==
  IF TokenThrows(reply) # {} THEN TokenThrows(reply)
  ELSE IF reply.isNull THEN {"Cannot read properties of null (reading 'result')"}
  ELSE IF ~Has(reply.data, "result") \/ ~Has(reply.data.result, "token")
          \/ reply.data.result.token = ""
  THEN {"Failed to get signed token from response"}
  ELSE {}

\* getRestrictedVideoIframeUrl up to its await: the token request is sent.
VidCall ==
  /\ Len(vidCalls) < MaxVidCalls
  /\ vidCalls' = Append(vidCalls,
       [request |-> TokenRequest("acct", "apitoken", "vid1", vidArgs.restrictions, vidNow),
        state |-> "pending", reply |-> {}, result |-> {}, thrown |-> {}])
  /\ UNCHANGED <<vidArgs, vidNow>>
  /\ UNCHANGED vidOthers

\* The token request of call i ends and the call returns or throws.
VidReply(i, reply) ==
  /\ i \in 1..Len(vidCalls)
  /\ vidCalls[i].state = "pending"
  /\ vidCalls' = [vidCalls EXCEPT ![i] =
       IF IframeThrows(reply) # {}
       THEN [@ EXCEPT !.state = "threw", !.reply = {reply},
                      !.thrown = IframeThrows(reply)]
       ELSE [@ EXCEPT !.state = "returned", !.reply = {reply},
                      !.result = {IframeResult(vidArgs.config, reply.data.result.token)}]]
  /\ UNCHANGED <<vidArgs, vidNow>>
  /\ UNCHANGED vidOthers

VidNext ==
  \/ VidCall
  \/ \E i \in 1..MaxVidCalls, reply \in VidReplies : VidReply(i, reply)

\* ========================================================== specifications
\* A package that is not under study stays in one fixed initial state.
FetchIdle ==
  /\ FetchStart
  /\ fcfg = [url |-> "/api/users", immediate |-> TRUE,
             revalidateInterval |-> DefaultRevalidateInterval, once |-> FALSE]

UploadIdle == UploadInit

ImageIdle ==
  /\ imgArgs = [accountHash |-> "acct", imageId |-> "a", variant |-> "a",
                signingKey |-> "key", expiresInSeconds |-> {}]
  /\ imgNow = 0
  /\ imgCalls = <<>>

R2Idle ==
  /\ r2Args = [fileName |-> "a", accountId |-> "acct", accessKeyId |-> "AKID",
               secretAccessKey |-> "secret", bucketName |-> "bucket",
               expiresIn |-> 60, contentType |-> "image/jpeg"]
  /\ r2Now = 1
  /\ r2Calls = <<>>

SslIdle == SslInit

TxnIdle == TxnInit

CfgIdle == CfgInit

PayIdle ==
  /\ payData = [total_amount |-> 1000, tran_id |-> "TXN1"]
  /\ payResult = <<>>

LsIdle ==
  /\ lsStore = [k \in {"a", "b"} |-> {}]
  /\ lsKey = "a"
  /\ lsInitialValue = 0
  /\ lsPhase = "unmounted"
  /\ storedValue = 0
  /\ lsQueue = {}
  /\ lsBatch = <<>>
  /\ lsLast = [op |-> "none", value |-> 0, threw |-> FALSE]
  /\ lsFresh = FALSE

RvIdle ==
  /\ rvCfg = [url |-> "", immediate |-> FALSE, revalidateInterval |-> 0,
              once |-> TRUE, transform |-> "none"]
  /\ RvStart

LogIdle ==
  /\ logUtil = [store_id |-> "store1", store_passwd |-> "qwerty",
                is_live |-> FALSE, debug |-> FALSE]
  /\ logEntries = <<>>
  /\ logPending = <<>>
  /\ logCalls = 0

UaIdle ==
  /\ uaTimeout = 1
  /\ uaHidden = FALSE
  /\ uaFocused = TRUE
  /\ UaStart

GeoIdle ==
  /\ geoEnv = [geolocation |-> FALSE, immediate |-> FALSE]
  /\ GeoStart

NetIdle ==
  /\ netEnv = "server"
  /\ navigatorOnLine = TRUE
  /\ NetStart

VidIdle ==
  /\ vidArgs = [config |-> [customer_domain |-> "c.example.com"], restrictions |-> {}]
  /\ vidNow = 1999
  /\ vidCalls = <<>>

InitFetch == FetchInit /\ UploadIdle /\ ImageIdle /\ R2Idle /\ SslIdle /\ TxnIdle /\ CfgIdle /\ PayIdle /\ LsIdle /\ RvIdle /\ LogIdle /\ UaIdle /\ GeoIdle /\ NetIdle /\ VidIdle
SpecFetch == InitFetch /\ [][FetchNext]_vars

InitUpload == UploadInit /\ FetchIdle /\ ImageIdle /\ R2Idle /\ SslIdle /\ TxnIdle /\ CfgIdle /\ PayIdle /\ LsIdle /\ RvIdle /\ LogIdle /\ UaIdle /\ GeoIdle /\ NetIdle /\ VidIdle
SpecUpload == InitUpload /\ [][UploadNext]_vars

InitImage == ImageInit /\ FetchIdle /\ UploadIdle /\ R2Idle /\ SslIdle /\ TxnIdle /\ CfgIdle /\ PayIdle /\ LsIdle /\ RvIdle /\ LogIdle /\ UaIdle /\ GeoIdle /\ NetIdle /\ VidIdle
SpecImage == InitImage /\ [][ImageNext]_vars

InitR2 == R2Init /\ FetchIdle /\ UploadIdle /\ ImageIdle /\ SslIdle /\ TxnIdle /\ CfgIdle /\ PayIdle /\ LsIdle /\ RvIdle /\ LogIdle /\ UaIdle /\ GeoIdle /\ NetIdle /\ VidIdle
SpecR2 == InitR2 /\ [][R2Next]_vars

InitSsl == SslInit /\ FetchIdle /\ UploadIdle /\ ImageIdle /\ R2Idle /\ TxnIdle /\ CfgIdle /\ PayIdle /\ LsIdle /\ RvIdle /\ LogIdle /\ UaIdle /\ GeoIdle /\ NetIdle /\ VidIdle
SpecSsl == InitSsl /\ [][SslNext]_vars

InitTxn == TxnInit /\ FetchIdle /\ UploadIdle /\ ImageIdle /\ R2Idle /\ SslIdle /\ CfgIdle /\ PayIdle /\ LsIdle /\ RvIdle /\ LogIdle /\ UaIdle /\ GeoIdle /\ NetIdle /\ VidIdle
SpecTxn == InitTxn /\ [][TxnNext]_vars

InitCfg == CfgInit /\ FetchIdle /\ UploadIdle /\ ImageIdle /\ R2Idle /\ SslIdle /\ TxnIdle /\ PayIdle /\ LsIdle /\ RvIdle /\ LogIdle /\ UaIdle /\ GeoIdle /\ NetIdle /\ VidIdle
SpecCfg == InitCfg /\ [][CfgNext]_vars

InitPay == PayInit /\ FetchIdle /\ UploadIdle /\ ImageIdle /\ R2Idle /\ SslIdle /\ TxnIdle /\ CfgIdle /\ LsIdle /\ RvIdle /\ LogIdle /\ UaIdle /\ GeoIdle /\ NetIdle /\ VidIdle
SpecPay == InitPay /\ [][PayNext]_vars

InitLs == LsInit /\ FetchIdle /\ UploadIdle /\ ImageIdle /\ R2Idle /\ SslIdle /\ TxnIdle /\ CfgIdle /\ PayIdle /\ RvIdle /\ LogIdle /\ UaIdle /\ GeoIdle /\ NetIdle /\ VidIdle
SpecLs == InitLs /\ [][LsNext]_vars

InitRv == RvInit /\ FetchIdle /\ UploadIdle /\ ImageIdle /\ R2Idle /\ SslIdle /\ TxnIdle /\ CfgIdle /\ PayIdle /\ LsIdle /\ LogIdle /\ UaIdle /\ GeoIdle /\ NetIdle /\ VidIdle
SpecRv == InitRv /\ [][RvNext]_vars

InitLog == LogInit /\ FetchIdle /\ UploadIdle /\ ImageIdle /\ R2Idle /\ SslIdle /\ TxnIdle /\ CfgIdle /\ PayIdle /\ LsIdle /\ RvIdle /\ UaIdle /\ GeoIdle /\ NetIdle /\ VidIdle
SpecLog == InitLog /\ [][LogNext]_vars

InitUa == UaInit /\ FetchIdle /\ UploadIdle /\ ImageIdle /\ R2Idle /\ SslIdle /\ TxnIdle /\ CfgIdle /\ PayIdle /\ LsIdle /\ RvIdle /\ LogIdle /\ GeoIdle /\ NetIdle /\ VidIdle
SpecUa == InitUa /\ [][UaNext]_vars

\* The same, with the clock running on and timers that have run out firing.
SpecUaFair ==
  /\ InitUa
  /\ [][UaNext]_vars
  /\ WF_vars(UaTick)
  /\ WF_vars(UaTimerFire)

InitGeo == GeoInit /\ FetchIdle /\ UploadIdle /\ ImageIdle /\ R2Idle /\ SslIdle /\ TxnIdle /\ CfgIdle /\ PayIdle /\ LsIdle /\ RvIdle /\ LogIdle /\ UaIdle /\ NetIdle /\ VidIdle
SpecGeo == InitGeo /\ [][GeoNext]_vars

InitNet == NetInit /\ FetchIdle /\ UploadIdle /\ ImageIdle /\ R2Idle /\ SslIdle /\ TxnIdle /\ CfgIdle /\ PayIdle /\ LsIdle /\ RvIdle /\ LogIdle /\ UaIdle /\ GeoIdle /\ VidIdle
SpecNet == InitNet /\ [][NetNext]_vars

InitVid == VidInit /\ FetchIdle /\ UploadIdle /\ ImageIdle /\ R2Idle /\ SslIdle /\ TxnIdle /\ CfgIdle /\ PayIdle /\ LsIdle /\ RvIdle /\ LogIdle /\ UaIdle /\ GeoIdle /\ NetIdle
SpecVid == InitVid /\ [][VidNext]_vars

Init == FetchInit /\ UploadInit /\ ImageInit /\ R2Init /\ SslInit /\ TxnInit /\ CfgInit /\ PayInit /\ LsInit /\ RvInit /\ LogInit /\ UaInit /\ GeoInit /\ NetInit /\ VidInit
Next == FetchNext \/ UploadNext \/ ImageNext \/ R2Next \/ SslNext \/ TxnNext \/ CfgNext \/ PayNext \/ LsNext \/ RvNext \/ LogNext \/ UaNext \/ GeoNext \/ NetNext \/ VidNext
Spec == Init /\ [][Next]_vars

\* =================================================================== claims
\* ------------------------------------------------------- useFetch: claims
\* Some request of the hook is still in flight.
RequestInFlight == \E i \in 1..Len(requests) : requests[i].state = "pending"

\* C1: with immediate: false and every other option at its default, no HTTP
\* request is issued as long as the caller has not invoked execute().
C1_RequestsOnlyOnManualExecute ==
  ( /\ fcfg.immediate = FALSE
    /\ fcfg.revalidateInterval = DefaultRevalidateInterval
    /\ fcfg.once = FALSE
    /\ ~executeCalled )
  => requests = <<>>

\* C2: with once: true (and the url unchanged) at most one HTTP request is
\* ever issued, and no revalidation timer is armed.
C2_OnceIssuesAtMostOneRequest ==
  fcfg.once => (Len(requests) <= 1 /\ ~interval)

\* C3: while the hook is mounted, loading is true if and only if at least
\* one request started by execute() has not yet completed.
C3_LoadingIffRequestInFlight ==
  fphase = "mounted" => (loading <=> RequestInFlight)

\* ------------------------------------------ useFileUploadProgress: claims
\* Upload i has been sent and has not reached load, error or abort.
InProgress(i) == uploads[i].xhr = "sent"

\* C4: abort() aborts the current upload: when the most recently started
\* upload has not yet reached load, error or abort, a call of abort() aborts
\* its XMLHttpRequest, resolves its promise with null, sets error to
\* "Upload aborted" and isUploading to false.
C4_AbortAbortsCurrentUpload ==
  [][ (abort /\ uploads # <<>> /\ InProgress(Len(uploads)))
      => /\ uploads'[Len(uploads)].xhr = "abort"
         /\ uploads'[Len(uploads)].promise = "null"
         /\ uploadError' = "Upload aborted"
         /\ isUploading' = FALSE ]_vars

\* C5: isUploading is true exactly when at least one upload started by
\* uploadFile() has not yet reached its load, error or abort event.
C5_IsUploadingIffInProgress ==
  isUploading <=> \E i \in 1..Len(uploads) : InProgress(i)

\* C6: the promise of every uploadFile() call never rejects and, once the
\* request has reached load, error or abort, has been resolved exactly once:
\* with a Response when it loaded with a status in 200..299, with null
\* otherwise.
C6_PromiseResolvedOnce ==
  \A i \in 1..Len(uploads) :
    /\ uploads[i].promise # "rejected"
    /\ uploads[i].xhr \in {"load", "error", "abort"} =>
         /\ uploads[i].resolves = 1
         /\ uploads[i].promise =
              IF uploads[i].xhr = "load" /\ uploads[i].status \in 200..299
              THEN "response" ELSE "null"

\* ------------------------------------------------- simple-r2-utils: claims
\* Signature Version 4's UriEncode: A-Z a-z 0-9 - _ . ~ stay, every other
\* byte becomes %XX; "/" stays in a path and is encoded anywhere else.
AwsUnreserved == CharsOf("-_.~")

AwsUriEncodeTable ==
  [c \in AllChars |->
     IF IsAlnum(c) \/ c \in AwsUnreserved THEN c ELSE PercentEncode(c)]

AwsPathEncodeTable ==
  [c \in AllChars |-> IF c = "/" THEN c ELSE AwsUriEncodeTable[c]]

\* a sorts before b by code points.
CodePointBefore(a, b) ==
  LET p == FirstDifference(a, b, CodeTable)
  IN IF p # 0 THEN CodeOf(Char(a, p)) < CodeOf(Char(b, p))
     ELSE Len(a) < Len(b)

\* The pairs sorted by code points of the names.
RECURSIVE SortByCodePoint(_)
SortByCodePoint(pairs) ==
  IF Len(pairs) <= 1 THEN pairs
  ELSE LET x == pairs[Len(pairs)]
           sorted == SortByCodePoint(SubSeq(pairs, 1, Len(pairs) - 1))
           k == Cardinality({i \in 1..Len(sorted) :
                               ~CodePointBefore(x[1], sorted[i][1])})
       IN SubSeq(sorted, 1, k) \o <<x>> \o SubSeq(sorted, k + 1, Len(sorted))

\* Signature Version 4's canonical query string of the pairs.
Sigv4CanonicalQuery(pairs) ==
  LET sorted == SortByCodePoint(pairs)
  IN Join([i \in 1..Len(sorted) |->
             MapChars(AwsUriEncodeTable, sorted[i][1]) \o "="
               \o MapChars(AwsUriEncodeTable, sorted[i][2])], "&")

\* The query parameters Signature Version 4 signs for a call of the model.
Sigv4SignedParams(call) ==
  LET amzDate == ReplaceDateSeparators(Instants[call.now])
  IN << <<"X-Amz-Algorithm", "AWS4-HMAC-SHA256">>,
        <<"X-Amz-Credential",
          r2Args.accessKeyId \o "/" \o SubSeq(amzDate, 1, 8)
            \o "/auto/s3/aws4_request">>,
        <<"X-Amz-Date", amzDate>>,
        <<"X-Amz-Expires", NatToString(r2Args.expiresIn)>>,
        <<"X-Amz-SignedHeaders",
          IF call.method = "PUT" THEN "content-type;host" ELSE "host">>,
        <<"X-Amz-Content-Sha256", "UNSIGNED-PAYLOAD">>,
        <<"x-id", IF call.method = "PUT" THEN "PutObject" ELSE "GetObject">> >>

\* The signature Signature Version 4 prescribes for a call of the model: the
\* canonical URI is the URI-encoded path of the object.
Sigv4Signature(call) ==
  LET amzDate == ReplaceDateSeparators(Instants[call.now])
      scope == SubSeq(amzDate, 1, 8) \o "/auto/s3/aws4_request"
      host == R2Host(r2Args.bucketName, r2Args.accountId)
      canonicalRequest ==
        call.method \o "\n"
          \o MapChars(AwsPathEncodeTable, "/" \o r2Args.fileName) \o "\n"
          \o Sigv4CanonicalQuery(Sigv4SignedParams(call)) \o "\n"
          \o (IF call.method = "PUT"
              THEN "content-type:" \o r2Args.contentType \o "\n" ELSE "")
          \o "host:" \o host \o "\n\n"
          \o (IF call.method = "PUT" THEN "content-type;host" ELSE "host")
          \o "\nUNSIGNED-PAYLOAD"
      stringToSign ==
        "AWS4-HMAC-SHA256\n" \o amzDate \o "\n" \o scope \o "\n"
          \o Sha256Hex(canonicalRequest)
      key == HmacSha256(HmacSha256(HmacSha256(HmacSha256(
               "AWS4" \o r2Args.secretAccessKey, SubSeq(amzDate, 1, 8)),
               "auto"), "s3"), "aws4_request")
  IN ToHex(HmacSha256(key, stringToSign))

\* The pairs as a set.
PairSet(pairs) == {pairs[i] : i \in 1..Len(pairs)}

\* C7: every URL the two functions return carries, after its first "?",
\* exactly the query parameters Signature Version 4 signs (X-Amz-Expires
\* being expiresIn, the scope's date the first 8 characters of X-Amz-Date)
\* plus X-Amz-Signature, and that signature is the one Signature Version 4
\* prescribes for the method, the object's path, those parameters, the
\* signed headers and UNSIGNED-PAYLOAD, under the chained signing key.
C7_SignsAsSigV4Prescribes ==
  \A i \in 1..Len(r2Calls) :
    LET call == r2Calls[i]
        carried == FormParse(After(call.url, "?"))
    IN /\ Len(carried) = 8
       /\ PairSet(carried) =
            PairSet(Sigv4SignedParams(call))
              \cup {<<"X-Amz-Signature", Sigv4Signature(call)>>}

\* --------------------------------------------- simple-cf-image-utils: claims
\* The expiry a call made at nowMs puts into the URL, in decimal.
ExpiryOf(nowMs) ==
  NatToString((nowMs \div 1000)
    + (IF imgArgs.expiresInSeconds = {} THEN DefaultExpiresInSeconds
       ELSE CHOOSE n \in imgArgs.expiresInSeconds : TRUE))

\* "/<accountHash>/<imageId>/<variant>" for the caller's arguments.
RawImagePath ==
  "/" \o imgArgs.accountHash \o "/" \o imgArgs.imageId \o "/" \o imgArgs.variant

\* None of the three path arguments holds a "?" or a "#".
NoDelimiterInArgs == ~Contains(RawImagePath, "?") /\ ~Contains(RawImagePath, "#")

\* Two calls made in the same clock second returned the same URL.
SameSecondSameUrl ==
  \A i, j \in 1..Len(imgCalls) :
    (imgCalls[i].now \div 1000 = imgCalls[j].now \div 1000)
      => imgCalls[i].url = imgCalls[j].url

\* The URL the claim describes for a call at nowMs, over the path p:
\* origin, p, "?exp=<E>&sig=<S>", S the hex HMAC of p followed by "?exp=<E>".
ClaimedImageUrl(p, nowMs) ==
  ImageOrigin \o p \o "?exp=" \o ExpiryOf(nowMs) \o "&sig="
    \o ToHex(HmacSha256(imgArgs.signingKey, p \o "?exp=" \o ExpiryOf(nowMs)))

\* C8 (as claimed): every call returns
\* https://imagedelivery.net/<accountHash>/<imageId>/<variant>?exp=<E>&sig=<S>
\* (the path percent-encoded as a URL path is), with E = floor(now/1000) +
\* expiresInSeconds and S the hex HMAC-SHA256 of the path followed by
\* "?exp=<E>" and of nothing else; and calls in the same clock second agree.
C8_SignedUrlAsClaimed ==
  /\ \A i \in 1..Len(imgCalls) :
       imgCalls[i].url =
         ClaimedImageUrl(MapChars(PathEncodeTable, RawImagePath), imgCalls[i].now)
  /\ SameSecondSameUrl

\* The index of the last c in s, or 0.
LastIndexOf(s, c) ==
  LET hits == {i \in 1..Len(s) : Char(s, i) = c}
  IN IF hits = {} THEN 0 ELSE CHOOSE i \in hits : \A j \in hits : j <= i

\* A returned URL, without its fragment, is origin, a signed part and
\* "&sig=" with the hex HMAC of exactly that signed part; the signed part is
\* a path and a query that holds exp = E once.
SignatureCoversPathAndQuery(url, nowMs) ==
  LET main == Before(url, "#")
      cut == LastIndexOf(main, "&")
      signed == SubSeq(main, Len(ImageOrigin) + 1, cut - 1)
      params == FormParse(After(signed, "?"))
  IN /\ cut > 0
     /\ SubSeq(main, 1, Len(ImageOrigin)) = ImageOrigin
     /\ SubSeq(main, cut, Len(main)) =
          "&sig=" \o ToHex(HmacSha256(imgArgs.signingKey, signed))
     /\ Contains(signed, "?")
     /\ Cardinality({k \in 1..Len(params) : params[k][1] = "exp"}) = 1
     /\ \E k \in 1..Len(params) : params[k] = <<"exp", ExpiryOf(nowMs)>>

\* C8 (amended): with no "?" and no "#" in accountHash, imageId and variant a
\* call returns origin, path, "?exp=<E>&sig=<S>", the path being the pathname
\* the URL parser gives "/<accountHash>/<imageId>/<variant>" and S the hex
\* HMAC-SHA256 of that path followed by "?exp=<E>"; in every case S is the
\* HMAC of the URL's path and whole query as they are before sig is added;
\* and two calls in the same clock second return the same URL.
C8_SignedUrlAmended ==
  /\ \A i \in 1..Len(imgCalls) :
       /\ NoDelimiterInArgs =>
            imgCalls[i].url =
              ClaimedImageUrl(MapChars(PathEncodeTable, TrimSpaces(RawImagePath)),
                              imgCalls[i].now)
       /\ SignatureCoversPathAndQuery(imgCalls[i].url, imgCalls[i].now)
  /\ SameSecondSameUrl

\* C8 witness: two calls, at different times of one clock second, with
\* arguments free of "?" and "#" and a space in the variant.
C8_Witness ==
  /\ NoDelimiterInArgs
  /\ Contains(imgArgs.variant, " ")
  /\ Len(imgCalls) = 2
  /\ imgCalls[1].now # imgCalls[2].now
  /\ imgCalls[1].now \div 1000 = imgCalls[2].now \div 1000

\* ----------------------------------------------- simple-sslcommerz: claims
\* The call has thrown an error with this code.
ThrewCode(code) ==
  /\ sslCall.state = "threw"
  /\ Has(sslCall.thrown[1], "code")
  /\ sslCall.thrown[1].code = code

\* C9: a call of initPayment (resp. initiateRefund) whose argument
\* validatePaymentData (resp. validateRefundData) returns a non-empty list
\* for has thrown an error with code VALIDATION_ERROR whose details are that
\* list, and has issued no HTTP request.
C9_ValidatesBeforeGateway ==
  /\ (sslCall.method = "initPayment" /\ validatePaymentData(sslCall.arg) # <<>>)
       => /\ ThrewCode("VALIDATION_ERROR")
          /\ sslCall.thrown[1].details = {validatePaymentData(sslCall.arg)}
          /\ sslCall.requests = <<>>
  /\ (sslCall.method = "initiateRefund" /\ validateRefundData(sslCall.arg) # <<>>)
       => /\ ThrewCode("VALIDATION_ERROR")
          /\ sslCall.thrown[1].details = {validateRefundData(sslCall.arg)}
          /\ sslCall.requests = <<>>

\* C9 witness: initPayment was called with data that has several validation
\* errors, and has thrown.
C9_Witness ==
  /\ sslCall.method = "initPayment"
  /\ Len(validatePaymentData(sslCall.arg)) >= 2
  /\ sslCall.state = "threw"

\* The codes each method documents (@throws).
DocumentedCodes(method) ==
  CASE method \in {"initPayment", "initiateRefund"} ->
         {"VALIDATION_ERROR", "HTTP_ERROR", "PARSE_ERROR", "NETWORK_ERROR"}
    [] method = "validatePayment" ->
         {"MISSING_VAL_ID", "HTTP_ERROR", "INVALID_RESPONSE", "VALIDATION_FAILED"}
    [] method = "checkRefundStatus" ->
         {"MISSING_REFUND_REF_ID", "HTTP_ERROR", "PARSE_ERROR",
          "REFUND_STATUS_FAILED"}
    [] OTHER -> {}

\* C10: an error thrown by one of the four methods has a code of the
\* method's documented list; a response that is not 2xx gives HTTP_ERROR, a
\* failure that has a code is thrown on unchanged, and a failure without a
\* code is thrown under the method's catch-all code.
C10_ThrownCodesAreDocumented ==
  /\ sslCall.state = "threw"
       => /\ Has(sslCall.thrown[1], "code")
          /\ sslCall.thrown[1].code \in DocumentedCodes(sslCall.method)
  /\ \A i \in 1..Len(sslCall.reply) :
       LET reply == sslCall.reply[i]
       IN /\ (reply.kind = "response" /\ ~reply.ok) => ThrewCode("HTTP_ERROR")
          /\ (reply.kind = "rejects" /\ Has(reply.error, "code"))
               => sslCall.state = "threw" /\ sslCall.thrown[1] = reply.error
          /\ (reply.kind = "rejects" /\ ~Has(reply.error, "code"))
               => ThrewCode(CatchCode(sslCall.method))

\* ------------------------------- simple-sslcommerz: transaction IDs, claims
\* C11: any two calls of generateTransactionId with the same prefix and
\* suffix, at any two times, have returned different strings.
C11_TransactionIdsAreUnique ==
  \A i, j \in 1..Len(txnIds) :
    (i # j /\ txnIds[i].prefix = txnIds[j].prefix
           /\ txnIds[i].suffix = txnIds[j].suffix)
      => txnIds[i].id # txnIds[j].id

\* -------------------------------- simple-sslcommerz: configuration, claims
\* The callback URL fields of a configuration.
CallbackUrls == {"success_url", "fail_url", "cancel_url", "ipn_url"}

\* All required fields are given, there is no base_url and URL validation
\* is not switched off.
RelativeUrlCase(config) ==
  /\ \A f \in CallbackUrls \cup {"store_id", "store_passwd"} : ~Falsy(config, f)
  /\ ~Has(config, "base_url")
  /\ ~Has(config, "skip_url_validation")

\* C12: the constructor throws nothing but errors with code CONFIG_ERROR or
\* INVALID_URL; given all required fields, no base_url and
\* skip_url_validation unset, construction completes, having logged for
\* every callback URL that is not an absolute URL the warning that URL
\* validation was skipped for that field.
C12_ConstructorThrowsOnlyConfigErrors ==
  /\ cfgUtil.state = "threw"
       => /\ Has(cfgUtil.thrown[1], "code")
          /\ cfgUtil.thrown[1].code \in {"CONFIG_ERROR", "INVALID_URL"}
  /\ (cfgUtil.state # "none" /\ RelativeUrlCase(cfgUtil.config))
       => /\ cfgUtil.state = "constructed"
          /\ \A f \in CallbackUrls :
               ~ParsesAsUrl(cfgUtil.config[f])
                 => \E i \in 1..Len(cfgUtil.logs) :
                      /\ cfgUtil.logs[i].level = "warn"
                      /\ cfgUtil.logs[i].message =
                           "URL validation skipped for " \o f
                             \o ", please provide base_url for relative URLs"

\* C13: the summary getConfigSummary returned has no store_passwd property
\* and does not depend on the password: an instance constructed from the
\* same configuration with any other store_passwd returns an equal summary.
C13_SummaryOmitsPassword ==
  cfgSummary # <<>>
    => /\ ~Has(cfgSummary[1], "store_passwd")
       /\ \A p \in Passwords :
            LET other ==
                  NewSSLCommerzUtil([cfgUtil.config EXCEPT !.store_passwd = p])
            IN /\ other.state = "constructed"
               /\ getConfigSummary(other.config) = cfgSummary[1]

\* C13 witness: an instance with a store name and a password has returned
\* its summary.
C13_Witness ==
  /\ cfgSummary # <<>>
  /\ Has(cfgUtil.config, "store_name")
  /\ cfgUtil.config.store_passwd = "s3cret"

\* ------------------------------------ simple-sslcommerz: payment data, claims
\* The text has the form local@domain.tld and no whitespace: one "@", with
\* text before it, and after it a "." that has text on both sides.
EmailForm(text) ==
  LET ats == {i \in 1..Len(text) : Char(text, i) = "@"}
  IN /\ Cardinality(ats) = 1
     /\ \A i \in 1..Len(text) : Char(text, i) \notin WhiteSpace
     /\ \A at \in ats :
          /\ at > 1
          /\ \E dot \in (at + 2)..(Len(text) - 1) : Char(text, dot) = "."

\* The text is a Bangladesh mobile number: without its spaces, dashes and
\* parentheses it ends in 1, a digit 3..9 and 8 digits, and what stands
\* before that is nothing, "+880", "880" or "0".
MobileForm(text) ==
  LET kept == SelectSeq([i \in 1..Len(text) |-> Char(text, i)],
                        LAMBDA c : c \notin {" ", "\n", "-", "(", ")"})
      n == Len(kept)
  IN /\ n >= 10
     /\ Concat(SubSeq(kept, 1, n - 10)) \in {"", "+880", "880", "0"}
     /\ kept[n - 9] = "1"
     /\ kept[n - 8] \in {"3", "4", "5", "6", "7", "8", "9"}
     /\ \A i \in (n - 7)..n : kept[i] \in Digits

\* The amount and the four texts the payment data must hold.
RequiredPartsValid(d) ==
  /\ Has(d, "total_amount")
  /\ d.total_amount >= 10
  /\ d.total_amount <= 500000
  /\ \A f \in {"tran_id", "cus_name", "cus_email", "cus_phone"} :
       Has(d, f) /\ \E i \in 1..Len(d[f]) : Char(d[f], i) \notin WhiteSpace
  /\ MobileForm(d.cus_phone)

\* C14 (as claimed): validatePaymentData returns the empty list exactly when
\* total_amount is between 10 and 500000, the four texts are present and
\* not blank, cus_email has the form local@domain.tld without whitespace,
\* cus_phone is a Bangladesh mobile number and currency is absent, "BDT" or
\* "USD".
C14_EmptyListIffValidAsClaimed ==
  payResult # <<>> =>
    ( payResult[1] = <<>>
      <=> /\ RequiredPartsValid(payData)
          /\ EmailForm(payData.cus_email)
          /\ ~Has(payData, "currency") \/ payData.currency \in {"BDT", "USD"} )

\* C14 (amended): as claimed, but cus_email has that form once the
\* whitespace around it is taken off, and currency may also be the empty
\* text.
C14_EmptyListIffValid ==
  payResult # <<>> =>
    ( payResult[1] = <<>>
      <=> /\ RequiredPartsValid(payData)
          /\ EmailForm(TrimSpaces(payData.cus_email))
          /\ ~Has(payData, "currency") \/ payData.currency \in {"", "BDT", "USD"} )

\* C14 witness: data with a formatted phone number was validated and found
\* valid.
C14_Witness ==
  /\ payResult = << <<>> >>
  /\ Has(payData, "cus_phone")
  /\ payData.cus_phone = "+880 1700-000000"
  /\ Has(payData, "currency")

\* ---------------------------------------------------------------- C15
\* The two calls made since the last render are both updater calls.
TwoUpdaterCalls ==
  /\ Len(lsBatch) = 2
  /\ lsBatch[1].op \in Updaters
  /\ lsBatch[2].op \in Updaters

\* C15: when setValue(f) and then setValue(g) are called before the
\* component renders again, g(f(v)) is the state queued for the next render
\* and, when setItem did not throw, the value stored under the key, where v
\* is the storedValue before the two calls.
C15_UpdatersCompose ==
  TwoUpdaterCalls =>
    LET composed ==
          ApplyUpdater(lsBatch[2].op, ApplyUpdater(lsBatch[1].op, storedValue))
    IN /\ lsQueue = {composed}
       /\ ~lsLast.threw => lsStore[lsKey] = {JSONstringify(composed)}

\* ---------------------------------------------------------------- C16
\* The hook was mounted, its read effect has run and the render that
\* follows is done, and no handler was called and no key changed since.
RestoredAfterMount ==
  /\ lsFresh
  /\ lsPhase = "idle"
  /\ lsQueue = {}

\* The last handler call was deleteValue() and the component has rendered.
DeletedAndRendered ==
  /\ lsLast.op = "deleteValue"
  /\ lsPhase = "idle"
  /\ lsQueue = {}

ReadEffectDone ==
  /\ lsPhase = "idle"
  /\ lsQueue = {}

\* The value claimed for storedValue: the parsed entry under the current
\* key when there is one, initialValue otherwise.
EntryOrInitial ==
  IF lsStore[lsKey] = {} THEN {lsInitialValue}
  ELSE JSONparse(CHOOSE text \in lsStore[lsKey] : TRUE)

\* C17: whenever the read effect has run and the component has rendered,
\* storedValue is the parsed entry under the current key if there is one
\* and initialValue otherwise.
C17_StoredValueMirrorsEntry ==
  ReadEffectDone => storedValue \in EntryOrInitial

\* C17 for the change of key alone: no storage call threw, every entry is
\* JSON text, and the last step was the read effect after a key change.
C17_KeyChangeToEmptyKey ==
  ( /\ ReadEffectDone
    /\ lsLast.op = "effect"
    /\ ~lsLast.threw
    /\ ~lsFresh
    /\ lsStore[lsKey] = {} ) => storedValue = lsInitialValue

\* ---------------------------------------------------------------- C18
\* The entry under the current key is not JSON text.
EntryUnparsable ==
  /\ lsStore[lsKey] # {}
  /\ JSONparse(CHOOSE text \in lsStore[lsKey] : TRUE) = {}

\* C18: when the read effect has met an entry that is not JSON text,
\* storedValue is initialValue; and when setItem or removeItem threw, the
\* call returned and the new value is the state queued for the next render
\* or, once rendered, storedValue.
C18_DegradesGracefully ==
  /\ (ReadEffectDone /\ lsLast.op = "effect" /\ EntryUnparsable) =>
       storedValue = lsInitialValue
  /\ (lsLast.op \in {"setValue", "deleteValue"} /\ lsLast.threw) =>
       \/ lsQueue = {lsLast.value}
       \/ lsQueue = {} /\ storedValue = lsLast.value

\* C18 for a freshly mounted hook only.
C18_FallsBackAtMount ==
  (RestoredAfterMount /\ EntryUnparsable) => storedValue = lsInitialValue

\* ---------------------------------------------------------------- C19
\* C19: in every state where error is not null and no request is in
\* flight, data is null.
C19_DataNullAfterError ==
  (error # Null /\ ~RequestInFlight) => data = Null

\* ---------------------------------------------------------------- C20
\* The configuration the claim is about: a url, revalidateInterval N > 0
\* and once: false.
Revalidating ==
  /\ rvCfg.url # ""
  /\ rvCfg.revalidateInterval > 0
  /\ ~rvCfg.once

\* The time of the last request start, or of the mount when the component
\* mounted without a request (the model mounts at time 0).
LastStart ==
  IF rvRequests = <<>> THEN 0 ELSE rvRequests[Len(rvRequests)].start

\* C20: with a url, revalidateInterval = N > 0 and once: false, while the
\* component is mounted a new request is started every N ms (successive
\* requests start N ms apart, and no more than N ms pass without one); at
\* most one interval timer is armed at any time; and after unmount no timer
\* is armed, so that none starts a request.
C20_RevalidatesEveryInterval ==
  /\ (Revalidating /\ rvPhase = "mounted") =>
       /\ \A i \in 1..(Len(rvRequests) - 1) :
            rvRequests[i + 1].start - rvRequests[i].start
              = rvCfg.revalidateInterval
       /\ rvNow - LastStart <= rvCfg.revalidateInterval
  /\ Cardinality(rvTimers) <= 1
  /\ rvPhase = "gone" => rvTimers = {}

\* C20 without the period: at most one timer, none after unmount.
C20_OneTimerClearedOnUnmount ==
  /\ Cardinality(rvTimers) <= 1
  /\ rvPhase = "gone" => rvTimers = {}

\* C20 for a transform that is absent or keeps its identity.
C20_RevalidatesWithStableTransform ==
  rvCfg.transform # "inline" => C20_RevalidatesEveryInterval

\* ---------------------------------------------------------------- C27
\* C27: when two or more requests of a mounted hook have all completed,
\* error reflects the request that was started last: it is null when that
\* request succeeded and not null when it failed.
C27_LastStartedRequestWins ==
  (fphase = "mounted" /\ Len(requests) >= 2 /\ ~RequestInFlight) =>
    LET last == requests[Len(requests)]
    IN /\ last.state = "ok" => error = Null
       /\ last.state = "failed" => error # Null

\* ---------------------------------------------------------------- C28
\* C28: in every state, isUploading = true implies error = null.
C28_NoErrorWhileUploading ==
  isUploading => uploadError = Null

\* An upload is flagged in progress after an earlier one of the same hook
\* ended in an error or was aborted, while another is still being sent.
C28_Witness ==
  /\ isUploading
  /\ uploadError = Null
  /\ \E i \in 1..Len(uploads) : uploads[i].xhr \in {"error", "abort"}
  /\ \E i, j \in 1..Len(uploads) :
       i < j /\ uploads[i].xhr = "sent" /\ uploads[j].xhr = "sent"

\* ---------------------------------------------------------------- C30
\* The path of a returned URL: what follows the host, up to the first "?".
UrlPath(url) ==
  LET origin == "https://" \o R2Host(r2Args.bucketName, r2Args.accountId)
  IN Before(SubSeq(url, Len(origin) + 1, Len(url)), "?")

\* The X-Amz-Signature a returned URL carries.
CarriedSignature(url) ==
  LET carried == FormParse(After(url, "?"))
      at == { i \in 1..Len(carried) : carried[i][1] = "X-Amz-Signature" }
  IN { carried[i][2] : i \in at }

\* C30: for every call, the path of the returned URL is the URI-encoded
\* form of "/" + fileName with "/" preserved, and the signature the URL
\* carries is the one computed over a canonical request whose canonical URI
\* is that same encoded path.
C30_SignedPathIsEncodedPath ==
  \A i \in 1..Len(r2Calls) :
    LET call == r2Calls[i]
    IN /\ UrlPath(call.url) = MapChars(AwsPathEncodeTable, "/" \o r2Args.fileName)
       /\ CarriedSignature(call.url) = {Sigv4Signature(call)}

\* C30 for file names made of unreserved characters and "/".
C30_HoldsForPlainNames ==
  ~Contains(r2Args.fileName, " ") => C30_SignedPathIsEncodedPath

\* ---------------------------------------------------------------- C29
\* The logger call carries the store password in its message or in a
\* property of its data object.
CarriesPassword(entry) ==
  \/ Includes(entry.message, logUtil.store_passwd)
  \/ \E i \in 1..Len(entry.fields) :
       Includes(entry.fields[i][2], logUtil.store_passwd)

\* C29: store_passwd appears in no message and in no data that
\* SSLCommerzUtil passes to its logger, with debug enabled or disabled.
C29_PasswordNeverLogged ==
  \A i \in 1..Len(logEntries) : ~CarriesPassword(logEntries[i])

\* C29 for what the logger prints when debug is disabled.
C29_NothingPrintedWithoutDebug ==
  ~logUtil.debug =>
    \A i \in 1..Len(logEntries) :
      logEntries[i].printed => ~CarriesPassword(logEntries[i])

\* ---------------------------------------------------------------- C21
\* The step is one of the events that count as activity: a mousemove,
\* keydown, mousedown or touchstart, or the page becoming visible and
\* focused.
ActivityEvent ==
  \/ UaActivity
  \/ UaVisibility /\ ~uaHidden' /\ uaFocused'

\* No activity event and no change of the idleTimeout option was the last
\* step.
Undisturbed == uaLast \notin {"activity", "option"}

\* C21: isIdle becomes true only when idleTimeout has passed since the
\* mount or the last activity event; every activity event sets isIdle to
\* false and leaves a timer with the whole idleTimeout to run; at most one
\* idle timer is pending at any time and none when the component is not
\* mounted; and a mounted hook that is not idle does become idle unless an
\* activity event, a change of idleTimeout or the unmount comes first.
C21_IdleAfterTimeout ==
  /\ [][(~isIdle /\ isIdle') => uaQuiet >= uaTimeout]_vars
  /\ [][ActivityEvent =>
          (~isIdle' /\ uaTimers' = {[id |-> CHOOSE id \in timeoutRef' : TRUE,
                                     remaining |-> uaTimeout]})]_vars
  /\ [](Cardinality(uaTimers) <= 1)
  /\ [](uaPhase # "mounted" => uaTimers = {})
  /\ (uaPhase = "mounted" /\ ~isIdle /\ Undisturbed)
       ~> (isIdle \/ uaPhase # "mounted" \/ ~Undisturbed)

\* The idle timer has fired after a whole idleTimeout without activity.
C21_Witness ==
  /\ uaPhase = "mounted"
  /\ isIdle
  /\ uaLast = "timer"
  /\ uaQuiet >= uaTimeout
  /\ uaTimeout = MaxIdleTicks

\* ---------------------------------------------------------------- C22
\* C22: at most one watcher is registered; a watch() made while the hook
\* holds a watch id registers nothing; while mounted, watching is true
\* exactly when a watcher is registered; and right after stopWatching(),
\* refresh() or the unmount no watcher is registered.
C22_AtMostOneWatcher ==
  /\ [](Cardinality(geoWatchers) <= 1)
  /\ [][(watch /\ watchIdRef # {}) => geoWatchers' = geoWatchers]_vars
  /\ [](Mounted => (watching <=> geoWatchers # {}))
  /\ [](geoLast.op \in {"stopWatching", "refresh", "unmount"} => geoWatchers = {})
  /\ [](geoPhase = "gone" => geoWatchers = {})

\* watch() was called while a watcher was registered, and that watcher is
\* still the only one.
C22_Witness ==
  /\ geoLast.op = "watch"
  /\ geoLast.had
  /\ watching
  /\ geoWatchers = watchIdRef
  /\ Cardinality(geoWatchers) = 1

\* ---------------------------------------------------------------- C23
\* A getCurrentPosition request has not yet invoked its callback.
PositionRequestPending ==
  \E i \in 1..Len(geoRequests) : geoRequests[i] = "pending"

\* C23: while the hook is mounted, loading is true exactly when a
\* getCurrentPosition request has not yet invoked its callback.
C23_LoadingIffRequestPending ==
  Mounted => (geoLoading <=> PositionRequestPending)

\* While the hook is mounted, loading is true only while some request is
\* pending.
C23_LoadingOnlyWhilePending ==
  Mounted => (geoLoading => PositionRequestPending)

\* ---------------------------------------------------------------- C24
\* C24: a mounted hook returns navigator.onLine as read at the first render
\* while no window event has followed that render, afterwards true exactly
\* when the most recent event was 'online'; after the unmount no listener
\* is left.
C24_FollowsMostRecentEvent ==
  /\ netPhase \in {"rendered", "subscribed"} =>
       IF netEvents = <<>>
       THEN isConnected = {navigatorOnLine}
       ELSE isConnected = {netEvents[Len(netEvents)].type = "online"}
  /\ netPhase = "gone" => netListeners = {}

\* The same for the events dispatched after the effect added the listeners.
C24_FollowsHeardEvents ==
  /\ netPhase = "subscribed" /\ netEvents # <<>> /\ netEvents[Len(netEvents)].heard =>
       isConnected = {netEvents[Len(netEvents)].type = "online"}
  /\ netPhase \in {"rendered", "subscribed"} /\ netEvents = <<>> =>
       isConnected = {navigatorOnLine}
  /\ netPhase = "gone" => netListeners = {}

\* ---------------------------------------------------------------- C25
\* C25: a render where window and navigator are undefined completes
\* without throwing and yields a boolean.
C25_ServerRenderYieldsBoolean ==
  (netEnv = "server" /\ netPhase # "unrendered") =>
    /\ netPhase # "threw"
    /\ isConnected \in {{TRUE}, {FALSE}}

\* In a browser the render yields a boolean.
C25_BrowserRenderYieldsBoolean ==
  (netEnv = "browser" /\ netPhase # "unrendered") =>
    /\ netPhase # "threw"
    /\ isConnected \in {{TRUE}, {FALSE}}

\* ---------------------------------------------------------------- C26
\* The token request of the call got a response with a non-empty
\* result.token.
GotToken(call) ==
  \E reply \in call.reply :
    /\ reply.kind = "response" /\ reply.ok /\ reply.json /\ ~reply.isNull
    /\ Has(reply.data, "result") /\ Has(reply.data.result, "token")
    /\ reply.data.result.token # ""

\* The player options of a config as the claim lists them.
SuppliedOptions(config) ==
  { <<name, IF config[name] THEN "true" ELSE "false">> :
      name \in {"autoplay", "muted", "controls", "loop", "preload"} \cap DOMAIN config }
    \cup { <<name, config[name]>> :
             name \in { n \in {"primaryColor", "letterboxColor", "defaultTextTrack"}
                               \cap DOMAIN config : config[n] # "" } }

\* The name-value pairs of the query of a URL.
QueryOptions(url) ==
  IF After(url, "?") = Null THEN {}
  ELSE { FormParse(After(url, "?"))[k] : k \in 1..Len(FormParse(After(url, "?"))) }

\* C26: a call that has ended either threw or returned
\* https://<customer_domain>/<token>/iframe[?query] with the token of its
\* own token request and a query of exactly the supplied player options;
\* it threw when that request failed or gave no result.token; and with
\* restrictions omitted the request body is exp = floor(now / 1000) + 3600.
C26_UrlFromOwnToken ==
  \A i \in 1..Len(vidCalls) :
    LET call == vidCalls[i] IN
    /\ call.state = "returned" =>
         /\ GotToken(call)
         /\ \A reply \in call.reply, result \in call.result :
              /\ result.token = reply.data.result.token
              /\ Before(result.url, "?") =
                   "https://" \o vidArgs.config.customer_domain \o "/"
                     \o reply.data.result.token \o "/iframe"
              /\ QueryOptions(result.url) = SuppliedOptions(vidArgs.config)
              /\ (SuppliedOptions(vidArgs.config) = {}) = (After(result.url, "?") = Null)
    /\ (call.state # "pending" /\ ~GotToken(call)) =>
         call.state = "threw" /\ call.result = {}
    /\ call.state = "threw" => call.result = {}
    /\ vidArgs.restrictions = {} =>
         call.request.body = "{\"exp\":" \o NatToString((vidNow \div 1000) + 3600) \o "}"

\* Two calls got different tokens and each returned the URL of its own,
\* with a false option and an encoded color in the query.
C26_Witness ==
  /\ Len(vidCalls) >= 2
  /\ vidCalls[1].state = "returned"
  /\ vidCalls[2].state = "returned"
  /\ vidCalls[1].result # vidCalls[2].result
  /\ vidArgs.restrictions = {}
  /\ <<"autoplay", "false">> \in SuppliedOptions(vidArgs.config)
  /\ <<"primaryColor", "#ff6600">> \in SuppliedOptions(vidArgs.config)

====
